---- MODULE Spec2Model ----
(***************************************************************************)
(* ConnectHub: the posts / likes / comments data model kept in the         *)
(* Supabase (PostgreSQL) database of scripts/complete-database-setup.sql,  *)
(* and the dashboard client (app/dashboard/page.tsx with the                *)
(* PostInteractions component) that reads and writes it.                   *)
(*                                                                         *)
(* A table without a uniqueness constraint of its own is a bag of rows:   *)
(* the generated uuid of a like or a comment is left out, and two rows     *)
(* that differ only in that uuid are two copies of one bag element.        *)
(***************************************************************************)
EXTENDS Integers, Naturals, FiniteSets, Sequences, Bags, TLC

\* ------------------------------------------------------------------ bounds
MaxUsers == 2
MaxPosts == 2
MaxComments == 1
MaxCount == 2

Users == 1..MaxUsers
NoUser == 0
PostIds == 1..MaxPosts

\* A text is a sequence of characters; " " stands for any white space.
Chars == {" ", "a"}
MaxLen == 2
Texts == UNION {[1..n -> Chars] : n \in 0..MaxLen}

Contents == {<<"a">>, <<"b">>}

\* auth.uid() of a request sent with the anon key and no session is NULL
Anon == 0
Principals == Users \cup {Anon}

VARIABLES
    authUsers,    \* auth.users: the set of user ids
    nextUserId,   \* the uuid of the next signup: ids are never reused
    profiles,     \* public.profiles: bag of rows [id, name, bio]
    posts,        \* public.posts: set of rows [id, user_id, content, by]
    likes,        \* public.likes: bag of rows [user_id, post_id, by]
    comments,     \* public.comments: bag of rows [user_id, post_id, content, created_at, by]
    nextPostId,   \* gen_random_uuid() for posts: ids are never reused
    resp,         \* the response to the last request sent straight to the API
    user,         \* useAuth().user of the dashboard session: a profile id or NoUser
    feed,         \* Dashboard posts state: sequence of [id, like_count, comment_count]
    fetch,        \* the fetchPosts call in flight
    isLoadingPosts, \* Dashboard isLoadingPosts state
    pi,           \* the PostInteractions component of each post of the feed
    toast,        \* the last toast shown
    session,      \* the auth session kept by the browser: session.user or NoSession
    gis,          \* useAuth: the position of getInitialSession
    resolver,     \* useAuth: the handleUserSession calls in flight
    loading,      \* useAuth loading state
    newPost,      \* Dashboard newPost state: the text of the create-post form
    isLoading,    \* Dashboard isLoading state
    create,       \* the handleCreatePost call in flight
    restUsers,    \* server.js users: sequence of [id, name, email, bio]
    restPosts,    \* server.js posts: sequence of [id, content, authorId, createdAt]
    restNow,      \* the clock of the server: new Date()
    restHashing,  \* the register requests that await bcrypt.hash: bag of emails
    restResp      \* the last response of the server: [status, body]

\* `by` is a history field: the principal (auth.uid()) whose request inserted
\* the row. No statement of the schema reads it.

dbVars == <<authUsers, nextUserId, profiles, posts, likes, comments, nextPostId>>

\* useAuth (hooks/use-auth.ts) besides user
authVars == <<session, gis, resolver, loading>>

\* the create-post form of Dashboard
formVars == <<newPost, isLoading, create>>

\* the REST server (scripts/server.js)
restVars == <<restUsers, restPosts, restNow, restHashing, restResp>>

otherVars == <<authVars, formVars, restVars>>

clientVars == <<user, feed, fetch, isLoadingPosts, pi, toast, otherVars>>

\* ------------------------------------------------------------ schema rules

\* CREATE POLICY ... WITH CHECK (auth.uid() = user_id) / USING (auth.uid() = user_id)
\* auth.uid() is NULL for Anon, and NULL = x is not true.
OwnsRow(pr, owner) == pr # Anon /\ pr = owner

\* mutant: the INSERT policy has no WITH CHECK
PolicyInsertCheckOff(pr, owner) == TRUE

PolicyInsertCheck(pr, owner) == OwnsRow(pr, owner)

\* mutant: the UPDATE / DELETE policy is USING (true)
PolicyUsingOff(pr, owner) == TRUE

PolicyUsing(pr, owner) == OwnsRow(pr, owner)

\* REFERENCES public.profiles(id)
ProfileExists(u) == \E r \in BagToSet(profiles) : r.id = u

\* REFERENCES public.posts(id)
PostExists(p) == \E r \in posts : r.id = p

PostRow(p) == CHOOSE r \in posts : r.id = p

LikeRows(l, u, p) == {r \in BagToSet(l) : r.user_id = u /\ r.post_id = p}

\* mutant: likes has no UNIQUE(user_id, post_id)
LikeUniqueViolationOff(l, u, p) == FALSE

\* UNIQUE(user_id, post_id) on public.likes
LikeUniqueViolation(l, u, p) == LikeRows(l, u, p) # {}

\* the rows of bag b that are in set S, each with its copies
RowsIn(b, S) == [r \in BagToSet(b) \cap S |-> CopiesIn(r, b)]

\* mutant: the post foreign keys have no ON DELETE CASCADE
CascadePostsOff(b, gone) == b

\* likes_post_id_fkey / comments_post_id_fkey ... ON DELETE CASCADE
CascadePosts(b, gone) == RowsIn(b, {r \in BagToSet(b) : r.post_id \notin gone})

\* likes_user_id_fkey / comments_user_id_fkey ... ON DELETE CASCADE
CascadeProfile(b, u) == RowsIn(b, {r \in BagToSet(b) : r.user_id # u})

\* posts_user_id_fkey ... ON DELETE CASCADE
PostsOfProfile(u) == {r \in posts : r.user_id = u}

\* ------------------------------------------------------ database requests
\* Each request is one statement run for principal pr (auth.uid()). Its status
\* is "ok", "rls" (42501, new row violates row-level security policy),
\* "conflict" (23505, unique violation) or "fk" (23503, foreign key violation);
\* its count is the number of rows it inserted, updated or deleted.

InsertPostStatus(pr, owner) ==
    IF ~PolicyInsertCheck(pr, owner) THEN "rls"
    ELSE IF ~ProfileExists(owner) THEN "fk"
    ELSE "ok"

DbInsertPost(pr, owner, c) ==
    /\ nextPostId <= MaxPosts
    /\ IF InsertPostStatus(pr, owner) = "ok"
         THEN /\ posts' = posts \cup
                    {[id |-> nextPostId, user_id |-> owner, content |-> c, by |-> pr]}
              /\ nextPostId' = nextPostId + 1
         ELSE UNCHANGED <<posts, nextPostId>>
    /\ UNCHANGED <<authUsers, nextUserId, profiles, likes, comments>>

\* UPDATE posts SET content = c, user_id = owner WHERE id = p.
\* A row the USING clause hides is not updated and no error is raised; the
\* policy has no WITH CHECK, so USING is also checked on the new row.
UpdatePostRows(pr, p) ==
    {r \in posts : r.id = p /\ PolicyUsing(pr, r.user_id)}

UpdatePostStatus(pr, p, owner) ==
    IF UpdatePostRows(pr, p) = {} THEN "ok"
    ELSE IF ~PolicyUsing(pr, owner) THEN "rls"
    ELSE IF ~ProfileExists(owner) THEN "fk"
    ELSE "ok"

UpdatePostCount(pr, p, owner) ==
    IF UpdatePostStatus(pr, p, owner) = "ok"
      THEN Cardinality(UpdatePostRows(pr, p)) ELSE 0

DbUpdatePost(pr, p, owner, c) ==
    /\ posts' = IF UpdatePostStatus(pr, p, owner) = "ok"
                  THEN (posts \ UpdatePostRows(pr, p)) \cup
                       {[r EXCEPT !.content = c, !.user_id = owner] :
                            r \in UpdatePostRows(pr, p)}
                  ELSE posts
    /\ UNCHANGED <<authUsers, nextUserId, profiles, likes, comments, nextPostId>>

\* DELETE FROM posts WHERE id = p: rows the USING clause hides are skipped
DeletePostRows(pr, p) ==
    {r \in posts : r.id = p /\ PolicyUsing(pr, r.user_id)}

DeletePostCount(pr, p) == Cardinality(DeletePostRows(pr, p))

DbDeletePost(pr, p) ==
    /\ posts' = posts \ DeletePostRows(pr, p)
    /\ likes' = CascadePosts(likes, {r.id : r \in DeletePostRows(pr, p)})
    /\ comments' = CascadePosts(comments, {r.id : r \in DeletePostRows(pr, p)})
    /\ UNCHANGED <<authUsers, nextUserId, profiles, nextPostId>>

InsertLikeStatus(pr, u, p) ==
    IF ~PolicyInsertCheck(pr, u) THEN "rls"
    ELSE IF LikeUniqueViolation(likes, u, p) THEN "conflict"
    ELSE IF ~ProfileExists(u) \/ ~PostExists(p) THEN "fk"
    ELSE "ok"

\* mutant: the row is written before the constraints are checked
DbInsertLikeUnchecked(pr, u, p) ==
    /\ likes' = likes (+) SetToBag({[user_id |-> u, post_id |-> p, by |-> pr]})
    /\ UNCHANGED <<authUsers, nextUserId, profiles, posts, comments, nextPostId>>

DbInsertLike(pr, u, p) ==
    /\ likes' = IF InsertLikeStatus(pr, u, p) = "ok"
                  THEN likes (+) SetToBag({[user_id |-> u, post_id |-> p, by |-> pr]})
                  ELSE likes
    /\ UNCHANGED <<authUsers, nextUserId, profiles, posts, comments, nextPostId>>

\* mutant: the delete matches the likes of every user on the post
DeleteLikeRowsAnyUser(pr, u, p) == {r \in BagToSet(likes) : r.post_id = p}

\* supabase.from("likes").delete().eq("post_id", p).eq("user_id", u)
DeleteLikeRows(pr, u, p) ==
    {r \in LikeRows(likes, u, p) : PolicyUsing(pr, r.user_id)}

DeleteLikeCount(pr, u, p) ==
    BagCardinality(RowsIn(likes, DeleteLikeRows(pr, u, p)))

DbDeleteLike(pr, u, p) ==
    /\ likes' = RowsIn(likes, BagToSet(likes) \ DeleteLikeRows(pr, u, p))
    /\ UNCHANGED <<authUsers, nextUserId, profiles, posts, comments, nextPostId>>

InsertCommentStatus(pr, u, p) ==
    IF ~PolicyInsertCheck(pr, u) THEN "rls"
    ELSE IF ~ProfileExists(u) \/ ~PostExists(p) THEN "fk"
    ELSE "ok"

\* created_at TIMESTAMP WITH TIME ZONE DEFAULT NOW() of a new comments row:
\* later than the created_at of every row of the table
NewCreatedAt ==
    IF comments = EmptyBag THEN 1
    ELSE 1 + (CHOOSE t \in {r.created_at : r \in BagToSet(comments)} :
                 \A r \in BagToSet(comments) : r.created_at <= t)

DbInsertCommentRow(pr, u, p, c) ==
    /\ comments' = IF InsertCommentStatus(pr, u, p) = "ok"
                     THEN comments (+) SetToBag({[user_id |-> u, post_id |-> p,
                                                   content |-> c, by |-> pr,
                                                   created_at |-> NewCreatedAt]})
                     ELSE comments
    /\ UNCHANGED <<authUsers, nextUserId, profiles, posts, likes, nextPostId>>

\* MaxComments bounds the rows of the table
DbInsertComment(pr, u, p, c) ==
    /\ BagCardinality(comments) < MaxComments
    /\ DbInsertCommentRow(pr, u, p, c)

\* UPDATE comments SET content = c, user_id = owner WHERE id = <the id of one
\* copy of row r>; the policy has no WITH CHECK, so USING is checked on the new row
UpdateCommentVisible(pr, r) == BagIn(r, comments) /\ PolicyUsing(pr, r.user_id)

UpdateCommentStatus(pr, r, owner) ==
    IF ~UpdateCommentVisible(pr, r) THEN "ok"
    ELSE IF ~PolicyUsing(pr, owner) THEN "rls"
    ELSE IF ~ProfileExists(owner) THEN "fk"
    ELSE "ok"

UpdateCommentCount(pr, r, owner) ==
    IF UpdateCommentStatus(pr, r, owner) = "ok" /\ UpdateCommentVisible(pr, r)
      THEN 1 ELSE 0

DbUpdateComment(pr, r, owner, c) ==
    /\ comments' = IF UpdateCommentCount(pr, r, owner) = 1
                     THEN (comments (-) SetToBag({r})) (+)
                          SetToBag({[r EXCEPT !.content = c, !.user_id = owner]})
                     ELSE comments
    /\ UNCHANGED <<authUsers, nextUserId, profiles, posts, likes, nextPostId>>

\* DELETE FROM comments WHERE id = <the id of one copy of row r>
DeleteCommentCount(pr, r) ==
    IF BagIn(r, comments) /\ PolicyUsing(pr, r.user_id) THEN 1 ELSE 0

DbDeleteComment(pr, r) ==
    /\ comments' = IF DeleteCommentCount(pr, r) = 1
                     THEN comments (-) SetToBag({r}) ELSE comments
    /\ UNCHANGED <<authUsers, nextUserId, profiles, posts, likes, nextPostId>>

\* mutant: profiles.id is not a key
InsertProfileStatusNoKey(pr, u) ==
    IF ~PolicyInsertCheck(pr, u) THEN "rls"
    ELSE IF u \notin authUsers THEN "fk"
    ELSE "ok"

\* INSERT INTO profiles (id, ...) by a client: profiles.id is the primary key
\* and REFERENCES auth.users(id)
InsertProfileStatus(pr, u) ==
    IF ~PolicyInsertCheck(pr, u) THEN "rls"
    ELSE IF ProfileExists(u) THEN "conflict"
    ELSE IF u \notin authUsers THEN "fk"
    ELSE "ok"

\* INSERT INTO profiles of the row [id, name, bio] for principal pr
DbInsertProfileRow(pr, row) ==
    /\ profiles' = IF InsertProfileStatus(pr, row.id) = "ok"
                     THEN profiles (+) SetToBag({row}) ELSE profiles
    /\ UNCHANGED <<authUsers, nextUserId, posts, likes, comments, nextPostId>>

\* UPDATE profiles SET id = id, name = name WHERE id = u. The policy is
\* FOR UPDATE USING (auth.uid() = id) without WITH CHECK, so USING is also
\* checked on the new row.
UpdateProfileRows(pr, u) ==
    {r \in BagToSet(profiles) : r.id = u /\ PolicyUsing(pr, r.id)}

UpdateProfileStatus(pr, u, id) ==
    IF UpdateProfileRows(pr, u) = {} THEN "ok"
    ELSE IF ~PolicyUsing(pr, id) THEN "rls"
    ELSE IF id # u /\ ProfileExists(id) THEN "conflict"
    ELSE IF id \notin authUsers \/ (id # u /\ PostsOfProfile(u) # {}) THEN "fk"
    ELSE "ok"

UpdateProfileCount(pr, u, id) ==
    IF UpdateProfileStatus(pr, u, id) = "ok"
      THEN Cardinality(UpdateProfileRows(pr, u)) ELSE 0

DbUpdateProfile(pr, u, id, name) ==
    /\ profiles' = IF UpdateProfileCount(pr, u, id) > 0
                     THEN RowsIn(profiles, BagToSet(profiles) \ UpdateProfileRows(pr, u))
                          (+) SetToBag({[r EXCEPT !.id = id, !.name = name] :
                                           r \in UpdateProfileRows(pr, u)})
                     ELSE profiles
    /\ UNCHANGED <<authUsers, nextUserId, posts, likes, comments, nextPostId>>

\* mutant: a policy FOR DELETE USING (auth.uid() = id) on profiles
PolicyDeleteProfileOwner(pr, owner) == OwnsRow(pr, owner)

\* public.profiles has row level security enabled and no policy FOR DELETE:
\* no row passes
PolicyDeleteProfile(pr, owner) == FALSE

\* DELETE FROM profiles WHERE id = u, with the cascades of the foreign keys
\* that reference the row
DeleteProfileRows(pr, u) ==
    {r \in BagToSet(profiles) : r.id = u /\ PolicyDeleteProfile(pr, r.id)}

DeleteProfileCount(pr, u) == Cardinality(DeleteProfileRows(pr, u))

DbDeleteProfile(pr, u) ==
    /\ IF DeleteProfileRows(pr, u) = {}
         THEN UNCHANGED <<profiles, posts, likes, comments>>
         ELSE /\ profiles' = RowsIn(profiles, BagToSet(profiles) \ DeleteProfileRows(pr, u))
              /\ posts' = posts \ PostsOfProfile(u)
              /\ likes' = CascadePosts(CascadeProfile(likes, u),
                                       {r.id : r \in PostsOfProfile(u)})
              /\ comments' = CascadePosts(CascadeProfile(comments, u),
                                          {r.id : r \in PostsOfProfile(u)})
    /\ UNCHANGED <<authUsers, nextUserId, nextPostId>>

\* An optional value (null, undefined or a missing key) is << >> when absent
\* and <<v>> when present. An email "local@domain" is kept as <<local, domain>>.
Absent == << >>

\* what a signup passes: options.data.name, the email, options.data.bio
DefaultMeta == [name |-> <<"Ann">>, email |-> <<"ann", "x.org">>, bio |-> Absent]

\* session.user: the id with email and user_metadata
AuthUserOf(u, m) == [id |-> u, name |-> m.name, email |-> m.email, bio |-> m.bio]

\* JavaScript a || b : null, undefined and "" are falsy
OrElse(a, b) == IF a # Absent /\ a[1] # "" THEN a ELSE b

\* authUser.email?.split("@")[0]
EmailLocalPart(email) == IF email = Absent THEN Absent ELSE <<email[1]>>

\* the literal of handleUserSession's newProfile.name
ResolverPlaceholder == "User"

\* handleUserSession, newProfile: name and bio of the row it inserts
newProfile(authUser) ==
    [id |-> authUser.id,
     name |-> OrElse(OrElse(authUser.name, EmailLocalPart(authUser.email)),
                     <<ResolverPlaceholder>>)[1],
     bio |-> OrElse(authUser.bio, <<"">>)[1]]

DbInsertProfile(pr, u) == DbInsertProfileRow(pr, newProfile(AuthUserOf(u, DefaultMeta)))

\* ---------------------------------------------------------- auth provider

\* A signup inserts into auth.users; the trigger on_auth_user_created runs
\* handle_new_user (SECURITY DEFINER), which inserts the profile row.
\* SQL COALESCE(a, b): only NULL is replaced
Coalesce(a, b) == IF a # Absent THEN a ELSE b

\* split_part(NEW.email, '@', 1): NULL for a NULL email
split_part(email) == IF email = Absent THEN Absent ELSE <<email[1]>>

\* the name handle_new_user gives the row; NULL violates name TEXT NOT NULL
TriggerName(m) == Coalesce(m.name, split_part(m.email))

handle_new_user(u, m) ==
    profiles (+) SetToBag({[id |-> u, name |-> TriggerName(m)[1],
                            bio |-> Coalesce(m.bio, <<"">>)[1]]})

\* supabase.auth.signUp with metadata m; when the trigger raises, the insert
\* into auth.users is rolled back with it
SignupWith(m) ==
    /\ nextUserId <= MaxUsers
    /\ IF TriggerName(m) = Absent
         THEN UNCHANGED <<authUsers, profiles, nextUserId>>
         ELSE /\ authUsers' = authUsers \cup {nextUserId}
              /\ profiles' = handle_new_user(nextUserId, m)
              /\ nextUserId' = nextUserId + 1
    /\ UNCHANGED <<posts, likes, comments, nextPostId>>

Signup == SignupWith(DefaultMeta)

\* mutant: the cascade from a profile stops at its posts
DeletedPostsNone(u) == {}

\* Deleting the auth user cascades to the profile (profiles.id REFERENCES
\* auth.users ON DELETE CASCADE), from the profile to its posts, likes and
\* comments, and from those posts to the likes and comments on them.
DeletedPosts(u) == {r.id : r \in PostsOfProfile(u)}

DeleteAuthUser(u) ==
    /\ u \in authUsers
    /\ authUsers' = authUsers \ {u}
    /\ profiles' = RowsIn(profiles, {r \in BagToSet(profiles) : r.id # u})
    /\ posts' = posts \ PostsOfProfile(u)
    /\ likes' = CascadePosts(CascadeProfile(likes, u), DeletedPosts(u))
    /\ comments' = CascadePosts(CascadeProfile(comments, u), DeletedPosts(u))
    /\ UNCHANGED <<nextUserId, nextPostId>>

\* the users that hold a session token: every user that signed up (a token
\* outlives the deletion of its auth user)
Senders == 1..(nextUserId - 1)

\* ------------------------------------------- requests sent straight to the API
\* Any holder of the anon key and a session can send any statement the GRANTs
\* allow; the response is kept in resp.

Response(op, pr, u, p, st, n) ==
    [op |-> op, pr |-> pr, u |-> u, p |-> p, st |-> st, n |-> n]

InsertCount(st) == IF st = "ok" THEN 1 ELSE 0

ApiInsertPost(pr, owner, c) ==
    /\ DbInsertPost(pr, owner, c)
    /\ resp' = Response("insertPost", pr, owner,
                        IF InsertPostStatus(pr, owner) = "ok" THEN nextPostId ELSE 0,
                        InsertPostStatus(pr, owner),
                        InsertCount(InsertPostStatus(pr, owner)))
    /\ UNCHANGED clientVars

ApiUpdatePost(pr, p, owner, c) ==
    /\ DbUpdatePost(pr, p, owner, c)
    /\ resp' = Response("updatePost", pr, owner, p, UpdatePostStatus(pr, p, owner),
                        UpdatePostCount(pr, p, owner))
    /\ UNCHANGED clientVars

ApiDeletePost(pr, p) ==
    /\ DbDeletePost(pr, p)
    /\ resp' = Response("deletePost", pr, NoUser, p, "ok", DeletePostCount(pr, p))
    /\ UNCHANGED clientVars

ApiInsertLike(pr, u, p) ==
    /\ DbInsertLike(pr, u, p)
    /\ resp' = Response("insertLike", pr, u, p, InsertLikeStatus(pr, u, p),
                        InsertCount(InsertLikeStatus(pr, u, p)))
    /\ UNCHANGED clientVars

ApiDeleteLike(pr, u, p) ==
    /\ DbDeleteLike(pr, u, p)
    /\ resp' = Response("deleteLike", pr, u, p, "ok", DeleteLikeCount(pr, u, p))
    /\ UNCHANGED clientVars

ApiInsertComment(pr, u, p, c) ==
    /\ DbInsertComment(pr, u, p, c)
    /\ resp' = Response("insertComment", pr, u, p, InsertCommentStatus(pr, u, p),
                        InsertCount(InsertCommentStatus(pr, u, p)))
    /\ UNCHANGED clientVars

ApiUpdateComment(pr, r, owner, c) ==
    /\ DbUpdateComment(pr, r, owner, c)
    /\ resp' = Response("updateComment", pr, r.user_id, r.post_id,
                        UpdateCommentStatus(pr, r, owner), UpdateCommentCount(pr, r, owner))
    /\ UNCHANGED clientVars

ApiDeleteComment(pr, r) ==
    /\ DbDeleteComment(pr, r)
    /\ resp' = Response("deleteComment", pr, r.user_id, r.post_id, "ok",
                        DeleteCommentCount(pr, r))
    /\ UNCHANGED clientVars

ApiInsertProfile(pr, u) ==
    /\ DbInsertProfile(pr, u)
    /\ resp' = Response("insertProfile", pr, u, 0, InsertProfileStatus(pr, u),
                        InsertCount(InsertProfileStatus(pr, u)))
    /\ UNCHANGED clientVars

ApiUpdateProfile(pr, u, id, name) ==
    /\ DbUpdateProfile(pr, u, id, name)
    /\ resp' = Response("updateProfile", pr, u, 0, UpdateProfileStatus(pr, u, id),
                        UpdateProfileCount(pr, u, id))
    /\ UNCHANGED clientVars

ApiDeleteProfile(pr, u) ==
    /\ DbDeleteProfile(pr, u)
    /\ resp' = Response("deleteProfile", pr, u, 0, "ok", DeleteProfileCount(pr, u))
    /\ UNCHANGED clientVars

AdminSignup ==
    /\ Signup
    /\ resp' = Response("signup", Anon, nextUserId, 0, "ok", 1)
    /\ UNCHANGED clientVars

AdminDeleteUser(u) ==
    /\ DeleteAuthUser(u)
    /\ resp' = Response("deleteUser", Anon, u, 0, "ok", 1)
    /\ UNCHANGED clientVars

vars == <<authUsers, nextUserId, profiles, posts, likes, comments, nextPostId, resp,
          user, feed, fetch, isLoadingPosts, pi, toast, otherVars>>

NoResponse == Response("none", Anon, NoUser, 0, "ok", 0)

FetchIdle == [pc |-> "idle"]

Unmounted == [mounted |-> FALSE]

NoToast == [variant |-> "none", description |-> "none"]

NoRequest == [kind |-> "none", st |-> "none"]

InitDb ==
    /\ authUsers = {}
    /\ nextUserId = 1
    /\ profiles = EmptyBag
    /\ posts = {}
    /\ likes = EmptyBag
    /\ comments = EmptyBag
    /\ nextPostId = 1

NoSession == [id |-> NoUser]

RunIdle == [pc |-> "idle"]

\* run 1 is the call of getInitialSession, run 2 that of onAuthStateChange
NoRuns == [i \in 1..2 |-> RunIdle]

InitClient ==
    /\ session = NoSession
    /\ gis = "unmounted"
    /\ resolver = NoRuns
    /\ loading = TRUE
    /\ newPost = << >>
    /\ isLoading = FALSE
    /\ create = NoRequest
    /\ user = NoUser
    /\ feed = << >>
    /\ fetch = FetchIdle
    /\ isLoadingPosts = TRUE
    /\ pi = [p \in PostIds |-> Unmounted]
    /\ toast = NoToast

\* ------------------------------------------------- public.posts_with_counts
RECURSIVE SumCopies(_, _)
\* COUNT(*) of one group: the copies of the rows of the group, added up
SumCopies(b, rows) ==
    IF rows = {} THEN 0
    ELSE LET r == CHOOSE x \in rows : TRUE
         IN CopiesIn(r, b) + SumCopies(b, rows \ {r})

\* SELECT post_id, COUNT(*) FROM <table> GROUP BY post_id
GroupByPost(b) ==
    {[post_id |-> q, count |-> SumCopies(b, {r \in BagToSet(b) : r.post_id = q})] :
        q \in {r.post_id : r \in BagToSet(b)}}

\* COALESCE(<joined count>, 0) of posts p LEFT JOIN <groups> ON p.id = post_id
JoinedCount(groups, p) ==
    IF \E g \in groups : g.post_id = p
      THEN (CHOOSE g \in groups : g.post_id = p).count
      ELSE 0

posts_with_counts ==
    {[id |-> r.id, user_id |-> r.user_id, content |-> r.content,
      like_count |-> JoinedCount(GroupByPost(likes), r.id),
      comment_count |-> JoinedCount(GroupByPost(comments), r.id)] : r \in posts}

\* ------------------------------------------------------- dashboard client
\* One browser session: Dashboard (app/dashboard/page.tsx) and one
\* PostInteractions component per displayed post. Every supabase call is a
\* request that either reaches the database and is answered with the
\* statement's status, or fails on the way with a "transient" error and leaves
\* the database alone. At most one fetchPosts call and, per component, one
\* checkIfLiked call are in flight at a time.

RECURSIVE OrderDesc(_)
\* .order("created_at", { ascending: false }): post ids are allotted in
\* creation order
OrderDesc(S) ==
    IF S = {} THEN << >>
    ELSE LET m == CHOOSE x \in S : \A y \in S : y <= x
         IN <<m>> \o OrderDesc(S \ {m})

\* mutant: the select list has no embedded profile
EmbedProfileNull(u) == << >>

\* the embedded resource profiles!posts_user_id_fkey (id, name, ...) of a
\* row that references profile u: the referenced row, or null
EmbedProfile(u) ==
    IF ProfileExists(u)
      THEN <<CHOOSE r \in BagToSet(profiles) : r.id = u>>
      ELSE << >>

\* the select list "id, content, created_at, profiles!posts_user_id_fkey (...)"
\* of one posts row
SelectedPost(r) == [id |-> r.id, content |-> r.content, profiles |-> EmbedProfile(r.user_id)]

\* supabase.from("posts").select(...).order("created_at", { ascending: false })
SelectPosts ==
    LET ids == OrderDesc({r.id : r \in posts})
    IN [i \in 1..Len(ids) |-> SelectedPost(PostRow(ids[i]))]

\* supabase.from("likes").select("*", { count: "exact", head: true }).eq("post_id", p)
CountLikes(p) == BagCardinality(RowsIn(likes, {r \in BagToSet(likes) : r.post_id = p}))

\* supabase.from("comments").select("*", { count: "exact", head: true }).eq("post_id", p)
CountComments(p) ==
    BagCardinality(RowsIn(comments, {r \in BagToSet(comments) : r.post_id = p}))

\* likeCount || 0 : the count of a failed request is null
OrZero(ok, n) == IF ok THEN n ELSE 0

SeqIds(f) == {f[i].id : i \in 1..Len(f)}

FeedRow(f, p) == f[CHOOSE i \in 1..Len(f) : f[i].id = p]

\* useState(initialLikeCount), useState(initialCommentCount),
\* useState(initialIsLiked): Dashboard passes no initialIsLiked; the effect on
\* [postId, currentUser] calls checkIfLiked
MountPostInteractions(row) ==
    [mounted |-> TRUE,
     likeCount |-> row.like_count,
     commentCount |-> row.comment_count,
     isLiked |-> FALSE,
     isLoadingLike |-> FALSE,
     like |-> NoRequest,
     chk |-> "sent",
     comments |-> << >>,
     newComment |-> << >>,
     isLoadingComment |-> FALSE,
     comment |-> NoRequest,
     isLoadingComments |-> FALSE,
     showComments |-> FALSE,
     fetchComments |-> NoRequest]

\* posts.map((post) => <motion.div key={post.id}> ... <PostInteractions .../>):
\* a component whose key stays in the list keeps its state, a new key mounts,
\* a key that left the list unmounts. The list is rendered only when
\* isLoadingPosts is false and posts is not empty.
Render(old, f, skeleton) ==
    [p \in PostIds |->
        IF skeleton \/ p \notin SeqIds(f) THEN Unmounted
        ELSE IF old[p].mounted THEN old[p]
        ELSE MountPostInteractions(FeedRow(f, p))]

\* The session of user u starts: useAuth resolves the profile, and the effect
\* on [user, dbSetup] calls fetchPosts.
Login(u) ==
    /\ user = NoUser
    /\ u \in authUsers /\ ProfileExists(u)
    /\ user' = u
    /\ fetch' = [pc |-> "posts"]
    /\ UNCHANGED <<feed, isLoadingPosts, pi, toast, resp, dbVars, otherVars>>

\* The page is reloaded or closed: every piece of client state is lost.
Reload ==
    /\ user # NoUser
    /\ user' = NoUser
    /\ feed' = << >>
    /\ fetch' = FetchIdle
    /\ isLoadingPosts' = TRUE
    /\ pi' = [p \in PostIds |-> Unmounted]
    /\ toast' = NoToast
    /\ gis' = "unmounted"
    /\ resolver' = NoRuns
    /\ loading' = TRUE
    /\ newPost' = << >>
    /\ isLoading' = FALSE
    /\ create' = NoRequest
    /\ UNCHANGED <<session, resp, dbVars, restVars>>

\* The effect of PostInteractions on [postId, currentUser] runs again in
\* every mounted component (one checkIfLiked call in flight per component)
RerunCheckIfLiked(old) ==
    [p \in PostIds |->
        IF old[p].mounted /\ old[p].chk = "idle"
          THEN [old[p] EXCEPT !.chk = "sent"] ELSE old[p]]

\* onAuthStateChange delivers SIGNED_IN: handleUserSession reads the profile
\* and calls setUser with the new object, so the effects on [user, dbSetup]
\* (fetchPosts) and on [postId, currentUser] (checkIfLiked) run again.
AuthRefresh ==
    /\ user # NoUser /\ ProfileExists(user)
    /\ fetch.pc = "idle"
    /\ fetch' = [pc |-> "posts"]
    /\ pi' = RerunCheckIfLiked(pi)
    /\ UNCHANGED <<user, feed, isLoadingPosts, toast, resp, dbVars, otherVars>>

Destructive(msg) == [variant |-> "destructive", description |-> msg]

Success(msg) == [variant |-> "default", description |-> msg]

\* fetchPosts, the posts query: on error the catch block shows a toast and
\* the finally block clears isLoadingPosts; otherwise the count reads start.
FetchPostsSelect(ok) ==
    /\ fetch.pc = "posts"
    /\ IF ok
         THEN /\ fetch' = [pc |-> "counts",
                           data |-> SelectPosts,
                           step |-> [p \in {r.id : r \in posts} |-> "like"],
                           lc |-> [p \in {r.id : r \in posts} |-> 0],
                           cc |-> [p \in {r.id : r \in posts} |-> 0]]
              /\ UNCHANGED <<isLoadingPosts, pi, toast>>
         ELSE /\ fetch' = FetchIdle
              /\ isLoadingPosts' = FALSE
              /\ pi' = Render(pi, feed, FALSE)
              /\ toast' = Destructive("error.message")
    /\ UNCHANGED <<user, feed, resp, dbVars, otherVars>>

\* fetchPosts, the like count of one post: const { count: likeCount } = await ...
\* (the error of the response is not read)
FetchLikeCount(p, ok) ==
    /\ fetch.pc = "counts"
    /\ p \in DOMAIN fetch.step /\ fetch.step[p] = "like"
    /\ fetch' = [fetch EXCEPT !.step[p] = "comment",
                              !.lc[p] = OrZero(ok, CountLikes(p))]
    /\ UNCHANGED <<user, feed, isLoadingPosts, pi, toast, resp, dbVars, otherVars>>

\* fetchPosts, the comment count of one post
FetchCommentCount(p, ok) ==
    /\ fetch.pc = "counts"
    /\ p \in DOMAIN fetch.step /\ fetch.step[p] = "comment"
    /\ fetch' = [fetch EXCEPT !.step[p] = "done",
                              !.cc[p] = OrZero(ok, CountComments(p))]
    /\ UNCHANGED <<user, feed, isLoadingPosts, pi, toast, resp, dbVars, otherVars>>

\* { ...post, like_count: likeCount || 0, comment_count: commentCount || 0 }
WithCounts(row, lc, cc) ==
    [id |-> row.id, content |-> row.content, profiles |-> row.profiles,
     like_count |-> lc, comment_count |-> cc]

PostsWithCounts(f) ==
    [i \in 1..Len(f.data) |->
        WithCounts(f.data[i], f.lc[f.data[i].id], f.cc[f.data[i].id])]

\* fetchPosts, after Promise.all: setPosts(postsWithCounts), then finally
FetchPostsDone ==
    /\ fetch.pc = "counts"
    /\ \A p \in DOMAIN fetch.step : fetch.step[p] = "done"
    /\ feed' = PostsWithCounts(fetch)
    /\ isLoadingPosts' = FALSE
    /\ pi' = Render(pi, PostsWithCounts(fetch), FALSE)
    /\ fetch' = FetchIdle
    /\ UNCHANGED <<user, toast, resp, dbVars, otherVars>>

\* checkIfLiked, the request: select("id").eq(post_id).eq(user_id).maybeSingle()
CheckIfLikedSelect(p, ok) ==
    /\ pi[p].mounted /\ pi[p].chk = "sent"
    /\ pi' = [pi EXCEPT ![p].chk =
                IF ~ok THEN "error"
                ELSE IF LikeRows(likes, user, p) # {} THEN "yes" ELSE "no"]
    /\ UNCHANGED <<user, feed, fetch, isLoadingPosts, toast, resp, dbVars, otherVars>>

\* checkIfLiked, after the await: on error return, else setIsLiked(!!data)
CheckIfLikedDone(p) ==
    /\ pi[p].mounted /\ pi[p].chk \in {"yes", "no", "error"}
    /\ pi' = [pi EXCEPT ![p].chk = "idle",
                        ![p].isLiked = IF pi[p].chk = "error" THEN pi[p].isLiked
                                       ELSE pi[p].chk = "yes"]
    /\ UNCHANGED <<user, feed, fetch, isLoadingPosts, toast, resp, dbVars, otherVars>>

\* mutant: handleLike has no early return
HandleLikeNeverReturnsEarly(p) == FALSE

\* if (isLoadingLike) return
HandleLikeReturnsEarly(p) == pi[p].isLoadingLike

\* handleLike up to the await: if (isLoadingLike) return; setIsLoadingLike(true);
\* the branch is taken on the isLiked of this render
HandleLikeStart(p) ==
    /\ pi[p].mounted
    /\ pi[p].isLiked \/ pi[p].likeCount < MaxCount
    /\ pi' = IF HandleLikeReturnsEarly(p) THEN pi
             ELSE [pi EXCEPT ![p].isLoadingLike = TRUE,
                             ![p].like = [kind |-> IF pi[p].isLiked THEN "unlike" ELSE "like",
                                          st |-> "sent"]]
    /\ UNCHANGED <<user, feed, fetch, isLoadingPosts, toast, resp, dbVars, otherVars>>

\* handleLike, the request: likes.delete().eq(post_id).eq(user_id) or
\* likes.insert([{ post_id, user_id }]) sent with the session of user
HandleLikeRequest(p, ok) ==
    /\ pi[p].mounted /\ pi[p].like.st = "sent"
    /\ IF ~ok
         THEN /\ pi' = [pi EXCEPT ![p].like.st = "transient"]
              /\ UNCHANGED dbVars
         ELSE IF pi[p].like.kind = "unlike"
         THEN /\ DbDeleteLike(user, user, p)
              /\ pi' = [pi EXCEPT ![p].like.st = "ok"]
         ELSE /\ DbInsertLike(user, user, p)
              /\ pi' = [pi EXCEPT ![p].like.st = InsertLikeStatus(user, user, p)]
    /\ UNCHANGED <<user, feed, fetch, isLoadingPosts, toast, resp, otherVars>>

\* mutant: setLikeCount((prev) => prev - 1)
UnlikedNoFloor(prev) == prev - 1

\* setLikeCount((prev) => Math.max(0, prev - 1))
Unliked(prev) == IF prev - 1 > 0 THEN prev - 1 ELSE 0

\* mutant: the count is not raised
LikedNoChange(prev) == prev

\* setLikeCount((prev) => prev + 1)
Liked(prev) == prev + 1

\* handleLike after the await: if (error) throw error -> catch shows the
\* destructive toast with error.message; else the flag and the count are set
\* and the success toast is shown; finally setIsLoadingLike(false)
HandleLikeDone(p) ==
    /\ pi[p].mounted /\ pi[p].like.kind # "none" /\ pi[p].like.st # "sent"
    /\ IF pi[p].like.st # "ok"
         THEN /\ pi' = [pi EXCEPT ![p].like = NoRequest, ![p].isLoadingLike = FALSE]
              /\ toast' = Destructive(pi[p].like.st)
         ELSE IF pi[p].like.kind = "unlike"
         THEN /\ pi' = [pi EXCEPT ![p].like = NoRequest, ![p].isLoadingLike = FALSE,
                                  ![p].isLiked = FALSE,
                                  ![p].likeCount = Unliked(pi[p].likeCount)]
              /\ toast' = Success("Post unliked!")
         ELSE /\ pi' = [pi EXCEPT ![p].like = NoRequest, ![p].isLoadingLike = FALSE,
                                  ![p].isLiked = TRUE,
                                  ![p].likeCount = Liked(pi[p].likeCount)]
              /\ toast' = Success("Post liked!")
    /\ UNCHANGED <<user, feed, fetch, isLoadingPosts, resp, dbVars, otherVars>>

\* ------------------------------------------------------------ String.trim()
RECURSIVE TrimStart(_)
TrimStart(s) == IF s # << >> /\ Head(s) = " " THEN TrimStart(Tail(s)) ELSE s

RECURSIVE TrimEnd(_)
TrimEnd(s) ==
    IF s # << >> /\ s[Len(s)] = " " THEN TrimEnd(SubSeq(s, 1, Len(s) - 1)) ELSE s

\* mutant: the text is taken as it is
TrimNothing(s) == s

Trim(s) == TrimEnd(TrimStart(s))

\* --------------------------------------------- PostInteractions.handleComment
\* MaxOwnComments bounds the comments the session adds
MaxOwnComments == 2

\* <Input value={newComment} onChange={(e) => setNewComment(e.target.value)} />
TypeComment(p, c) ==
    /\ pi[p].mounted
    /\ c # pi[p].newComment
    /\ pi' = [pi EXCEPT ![p].newComment = c]
    /\ UNCHANGED <<user, feed, fetch, isLoadingPosts, toast, resp, dbVars, otherVars>>

\* handleComment up to the await: if (!newComment.trim() || isLoadingComment)
\* return; setIsLoadingComment(true); the row sent has content: newComment.trim()
HandleCommentStart(p) ==
    /\ pi[p].mounted
    /\ Trim(pi[p].newComment) # << >>
    /\ ~pi[p].isLoadingComment
    /\ BagCardinality(comments) < MaxOwnComments
    /\ pi' = [pi EXCEPT ![p].isLoadingComment = TRUE,
                        ![p].comment = [kind |-> "comment", st |-> "sent",
                                        content |-> Trim(pi[p].newComment),
                                        data |-> << >>]]
    /\ UNCHANGED <<user, feed, fetch, isLoadingPosts, toast, resp, dbVars, otherVars>>

\* the select list "id, content, created_at, profiles!comments_user_id_fkey (...)"
\* of one comments row
SelectedComment(r) ==
    [content |-> r.content, created_at |-> r.created_at,
     profiles |-> EmbedProfile(r.user_id)]

\* handleComment, the request: comments.insert([{ content, post_id, user_id:
\* currentUser.id }]).select(...).single() sent with the session of user
HandleCommentRequest(p, ok) ==
    /\ pi[p].mounted /\ pi[p].comment.st = "sent"
    /\ IF ~ok
         THEN /\ pi' = [pi EXCEPT ![p].comment.st = "transient"]
              /\ UNCHANGED dbVars
         ELSE /\ DbInsertCommentRow(user, user, p, pi[p].comment.content)
              /\ pi' = [pi EXCEPT
                          ![p].comment.st = InsertCommentStatus(user, user, p),
                          ![p].comment.data =
                              IF InsertCommentStatus(user, user, p) = "ok"
                                THEN <<SelectedComment([user_id |-> user,
                                           content |-> pi[p].comment.content,
                                           created_at |-> NewCreatedAt])>>
                                ELSE << >>]
    /\ UNCHANGED <<user, feed, fetch, isLoadingPosts, toast, resp, otherVars>>

\* setCommentCount((prev) => prev + 1)
Commented(prev) == prev + 1

\* handleComment after the await: if (error) throw error -> catch shows the
\* destructive toast; else the row is appended, the count raised, the input
\* cleared and the success toast shown; finally setIsLoadingComment(false)
HandleCommentDone(p) ==
    /\ pi[p].mounted /\ pi[p].comment.kind # "none" /\ pi[p].comment.st # "sent"
    /\ IF pi[p].comment.st # "ok"
         THEN /\ pi' = [pi EXCEPT ![p].comment = NoRequest,
                                  ![p].isLoadingComment = FALSE]
              /\ toast' = Destructive("Failed to add comment. Please try again.")
         ELSE /\ pi' = [pi EXCEPT ![p].comment = NoRequest,
                                  ![p].isLoadingComment = FALSE,
                                  ![p].comments = Append(pi[p].comments,
                                                         pi[p].comment.data[1]),
                                  ![p].commentCount = Commented(pi[p].commentCount),
                                  ![p].newComment = << >>]
              /\ toast' = Success("Comment added successfully!")
    /\ UNCHANGED <<user, feed, fetch, isLoadingPosts, resp, dbVars, otherVars>>

\* --------------------------------------------- PostInteractions.fetchComments
\* mutant: the query has no .eq("post_id", postId)
CommentsOfAnyPost(p) == BagToSet(comments)

\* .eq("post_id", postId)
CommentsOfPost(p) == {r \in BagToSet(comments) : r.post_id = p}

RECURSIVE OrderByCreatedAt(_, _)
\* .order("created_at", { ascending: true }) of the rows of bag b that are in
\* the set rows
OrderByCreatedAt(b, rows) ==
    IF rows = {} THEN << >>
    ELSE LET r == CHOOSE x \in rows : \A y \in rows : x.created_at <= y.created_at
         IN [i \in 1..CopiesIn(r, b) |-> r] \o OrderByCreatedAt(b, rows \ {r})

\* supabase.from("comments").select(...).eq("post_id", p).order("created_at",
\* { ascending: true })
SelectComments(p) ==
    LET rows == OrderByCreatedAt(comments, CommentsOfPost(p))
    IN [i \in 1..Len(rows) |-> SelectedComment(rows[i])]

\* handleCommentsClick: setShowComments(true); if (comments.length === 0)
\* fetchComments(), which returns at once if (isLoadingComments) and else
\* calls setIsLoadingComments(true) and sends the query
HandleCommentsClick(p) ==
    /\ pi[p].mounted
    /\ ~pi[p].showComments
    /\ pi' = IF pi[p].comments = << >> /\ ~pi[p].isLoadingComments
               THEN [pi EXCEPT ![p].showComments = TRUE,
                               ![p].isLoadingComments = TRUE,
                               ![p].fetchComments = [kind |-> "comments", st |-> "sent",
                                                     data |-> << >>]]
               ELSE [pi EXCEPT ![p].showComments = TRUE]
    /\ UNCHANGED <<user, feed, fetch, isLoadingPosts, toast, resp, dbVars, otherVars>>

\* <Dialog open={showComments} onOpenChange={setShowComments}>: the dialog is closed
CloseComments(p) ==
    /\ pi[p].mounted /\ pi[p].showComments
    /\ pi' = [pi EXCEPT ![p].showComments = FALSE]
    /\ UNCHANGED <<user, feed, fetch, isLoadingPosts, toast, resp, dbVars, otherVars>>

\* fetchComments, the request
FetchCommentsSelect(p, ok) ==
    /\ pi[p].mounted /\ pi[p].fetchComments.st = "sent"
    /\ pi' = IF ok
               THEN [pi EXCEPT ![p].fetchComments.st = "ok",
                               ![p].fetchComments.data = SelectComments(p)]
               ELSE [pi EXCEPT ![p].fetchComments.st = "transient"]
    /\ UNCHANGED <<user, feed, fetch, isLoadingPosts, toast, resp, dbVars, otherVars>>

\* fetchComments after the await: if (error) throw error -> catch shows the
\* destructive toast; else setComments(data || []); finally
\* setIsLoadingComments(false)
FetchCommentsDone(p) ==
    /\ pi[p].mounted /\ pi[p].fetchComments.kind # "none"
    /\ pi[p].fetchComments.st # "sent"
    /\ IF pi[p].fetchComments.st = "ok"
         THEN /\ pi' = [pi EXCEPT ![p].comments = pi[p].fetchComments.data,
                                  ![p].isLoadingComments = FALSE,
                                  ![p].fetchComments = NoRequest]
              /\ UNCHANGED toast
         ELSE /\ pi' = [pi EXCEPT ![p].isLoadingComments = FALSE,
                                  ![p].fetchComments = NoRequest]
              /\ toast' = Destructive("Failed to load comments. Please try again.")
    /\ UNCHANGED <<user, feed, fetch, isLoadingPosts, resp, dbVars, otherVars>>

\* ------------------------------------------------- Dashboard.handleCreatePost
\* MaxLivePosts bounds the posts that exist at a time
MaxLivePosts == 1

\* <Textarea value={newPost} onChange={(e) => setNewPost(e.target.value)} />:
\* the form is rendered for a signed-in user
TypeNewPost(c) ==
    /\ user # NoUser
    /\ c # newPost
    /\ newPost' = c
    /\ UNCHANGED <<user, feed, fetch, isLoadingPosts, pi, toast, resp, dbVars,
                   authVars, restVars, isLoading, create>>

\* handleCreatePost up to the await: if (!newPost.trim() || !user) return;
\* setIsLoading(true). The submit button is disabled while isLoading. The
\* closure holds the posts of this render.
HandleCreatePostStart ==
    /\ Trim(newPost) # << >> /\ user # NoUser
    /\ ~isLoading
    /\ nextPostId <= MaxPosts
    /\ isLoading' = TRUE
    /\ create' = [kind |-> "post", st |-> "sent", content |-> newPost,
                  posts |-> feed, data |-> << >>]
    /\ UNCHANGED <<user, feed, fetch, isLoadingPosts, pi, toast, resp, dbVars,
                   authVars, restVars, newPost>>

\* handleCreatePost, the request: posts.insert([{ content: newPost, user_id:
\* user.id }]).select(...).single() sent with the session of user
HandleCreatePostRequest(ok) ==
    /\ create.st = "sent"
    /\ IF ~ok
         THEN /\ create' = [create EXCEPT !.st = "transient"]
              /\ UNCHANGED dbVars
         ELSE /\ DbInsertPost(user, user, create.content)
              /\ create' = [create EXCEPT
                              !.st = InsertPostStatus(user, user),
                              !.data =
                                  IF InsertPostStatus(user, user) = "ok"
                                    THEN <<SelectedPost([id |-> nextPostId,
                                               user_id |-> user,
                                               content |-> create.content])>>
                                    ELSE << >>]
    /\ UNCHANGED <<user, feed, fetch, isLoadingPosts, pi, toast, resp,
                   authVars, restVars, newPost, isLoading>>

\* handleCreatePost after the await: if (error) throw error -> catch shows the
\* destructive toast with error.message; else setPosts([newPostWithCounts,
\* ...posts]), setNewPost("") and the success toast; finally setIsLoading(false)
HandleCreatePostDone ==
    /\ create.kind # "none" /\ create.st # "sent"
    /\ IF create.st # "ok"
         THEN /\ toast' = Destructive(create.st)
              /\ UNCHANGED <<feed, pi, newPost>>
         ELSE /\ feed' = <<WithCounts(create.data[1], 0, 0)>> \o create.posts
              /\ pi' = Render(pi, <<WithCounts(create.data[1], 0, 0)>> \o create.posts,
                              isLoadingPosts)
              /\ newPost' = << >>
              /\ toast' = Success("Post created successfully!")
    /\ isLoading' = FALSE
    /\ create' = NoRequest
    /\ UNCHANGED <<user, fetch, isLoadingPosts, resp, dbVars, authVars, restVars>>

\* ------------------------------------------------------------ environment
\* The other sessions (the session user in another tab among them): users
\* that create and delete their posts, like and unlike, and comment, each
\* with its own token.
OtherContent == <<"a">>

Silent == UNCHANGED <<resp, clientVars>>

OtherInsertPost(u) ==
    /\ DbInsertPost(u, u, OtherContent)
    /\ Silent

OtherDeletePost(u, p) == DbDeletePost(u, p) /\ PostExists(p) /\ Silent

OtherInsertLike(u, p) == DbInsertLike(u, u, p) /\ Silent

OtherDeleteLike(u, p) == DbDeleteLike(u, u, p) /\ Silent

OtherInsertComment(u, p) == DbInsertComment(u, u, p, OtherContent) /\ Silent

\* MaxListedComments bounds the rows of the table where comments are listed
MaxListedComments == 3

\* MaxCreatedAt bounds the clock of the comments
MaxCreatedAt == 3

OtherInsertCommentRow(u, p, c) ==
    /\ BagCardinality(comments) < MaxListedComments
    /\ NewCreatedAt <= MaxCreatedAt
    /\ DbInsertCommentRow(u, u, p, c)
    /\ InsertCommentStatus(u, u, p) = "ok"
    /\ Silent

OtherDeleteComment(u, r) ==
    /\ DeleteCommentCount(u, r) = 1
    /\ DbDeleteComment(u, r)
    /\ Silent

\* ---------------------------------------- Dashboard with its feed (SpecFeed)
FeedNext ==
    \/ Signup /\ Silent
    \/ \E u \in Senders : DeleteAuthUser(u) /\ Silent
    \/ \E u \in Senders : Cardinality(posts) < MaxLivePosts /\ OtherInsertPost(u)
    \/ \E u \in Senders, p \in PostIds : OtherDeletePost(u, p)
    \/ \E u \in Senders, p \in PostIds : OtherInsertLike(u, p)
    \/ \E u \in Senders, p \in PostIds : OtherDeleteLike(u, p)
    \/ \E u \in Senders, p \in PostIds : OtherInsertComment(u, p)
    \/ \E u \in Users : Login(u)
    \/ Reload
    \/ AuthRefresh
    \/ \E ok \in BOOLEAN : FetchPostsSelect(ok)
    \/ \E p \in PostIds, ok \in BOOLEAN : FetchLikeCount(p, ok)
    \/ \E p \in PostIds, ok \in BOOLEAN : FetchCommentCount(p, ok)
    \/ FetchPostsDone

\* ------------------------- one PostInteractions in any Dashboard (SpecLike)
\* The parent renders the component of post p with the counts of its posts
\* state: any count a fetch can have read. initialCommentCount is not read by
\* the like handlers.
MountOne(p, lc) ==
    /\ user # NoUser
    /\ p < nextPostId
    /\ \A q \in PostIds : ~pi[q].mounted
    /\ pi' = [pi EXCEPT ![p] =
                MountPostInteractions([id |-> p, like_count |-> lc, comment_count |-> 0])]
    /\ UNCHANGED <<user, feed, fetch, isLoadingPosts, toast, resp, dbVars, otherVars>>

\* The post leaves the list of the parent
UnmountOne(p) ==
    /\ pi[p].mounted
    /\ pi' = [pi EXCEPT ![p] = Unmounted]
    /\ UNCHANGED <<user, feed, fetch, isLoadingPosts, toast, resp, dbVars, otherVars>>

\* setUser(profile) with a new object: the currentUser prop changes
CurrentUserChanged ==
    /\ user # NoUser /\ ProfileExists(user)
    /\ pi' = RerunCheckIfLiked(pi)
    /\ pi' # pi
    /\ UNCHANGED <<user, feed, fetch, isLoadingPosts, toast, resp, dbVars, otherVars>>

SessionStart(u) ==
    /\ user = NoUser
    /\ u \in authUsers /\ ProfileExists(u)
    /\ user' = u
    /\ UNCHANGED <<feed, fetch, isLoadingPosts, pi, toast, resp, dbVars, otherVars>>

LikeNext ==
    \/ Signup /\ Silent
    \/ \E u \in Senders : DeleteAuthUser(u) /\ Silent
    \/ \E u \in Senders : Cardinality(posts) < MaxLivePosts /\ OtherInsertPost(u)
    \/ \E u \in Senders, p \in PostIds : OtherDeletePost(u, p)
    \/ \E u \in Senders, p \in PostIds : OtherInsertLike(u, p)
    \/ \E u \in Senders, p \in PostIds : OtherDeleteLike(u, p)
    \/ \E u \in Users : SessionStart(u)
    \/ Reload
    \/ \E p \in PostIds, lc \in 0..MaxUsers : MountOne(p, lc)
    \/ \E p \in PostIds : UnmountOne(p)
    \/ CurrentUserChanged
    \/ \E p \in PostIds, ok \in BOOLEAN : CheckIfLikedSelect(p, ok)
    \/ \E p \in PostIds : CheckIfLikedDone(p)
    \/ \E p \in PostIds : HandleLikeStart(p)
    \/ \E p \in PostIds, ok \in BOOLEAN : HandleLikeRequest(p, ok)
    \/ \E p \in PostIds : HandleLikeDone(p)

\* ------------- one PostInteractions toggled with nobody else (SpecToggle)
\* The other users like and unlike before the component of the post is
\* mounted; from then on only the session acts, and checkIfLiked runs once.
NoneMounted == \A q \in PostIds : ~pi[q].mounted

ToggleNext ==
    \/ Signup /\ Silent
    \/ \E u \in Senders : Cardinality(posts) < MaxLivePosts /\ OtherInsertPost(u)
    \/ \E u \in Senders \ {user}, p \in PostIds :
           user # NoUser /\ NoneMounted /\ OtherInsertLike(u, p)
    \/ \E u \in Senders \ {user}, p \in PostIds :
           user # NoUser /\ NoneMounted /\ OtherDeleteLike(u, p)
    \/ \E u \in Users : SessionStart(u)
    \/ \E p \in PostIds, lc \in 0..MaxUsers : MountOne(p, lc)
    \/ \E p \in PostIds, ok \in BOOLEAN : CheckIfLikedSelect(p, ok)
    \/ \E p \in PostIds : CheckIfLikedDone(p)
    \/ \E p \in PostIds : HandleLikeStart(p)
    \/ \E p \in PostIds, ok \in BOOLEAN : HandleLikeRequest(p, ok)
    \/ \E p \in PostIds : HandleLikeDone(p)

\* ------------------------------------------ useAuth, the resolver (SpecAuth)
\* what signups pass as name, email and bio
Metas ==
    [name : {Absent, <<"Ann">>},
     email : {Absent, <<"ann", "x.org">>},
     bio : {Absent, <<"dev">>}]

feedVars == <<feed, fetch, isLoadingPosts, pi, formVars, restVars>>

\* A user that signed up before on_auth_user_created was installed by the
\* setup script: an auth.users row without a profile row.
LegacySignup ==
    /\ nextUserId <= MaxUsers
    /\ authUsers' = authUsers \cup {nextUserId}
    /\ nextUserId' = nextUserId + 1
    /\ UNCHANGED <<profiles, posts, likes, comments, nextPostId>>

\* supabase.auth.signInWithPassword: the browser keeps the session
SignIn(u, m) ==
    /\ session = NoSession
    /\ u \in authUsers
    /\ session' = AuthUserOf(u, m)
    /\ UNCHANGED <<user, feedVars, toast, gis, resolver, loading, resp, dbVars>>

\* the first effect of useAuth: getInitialSession() and the subscription
MountUseAuth ==
    /\ gis = "unmounted"
    /\ gis' = "getSession"
    /\ UNCHANGED <<user, feedVars, toast, session, resolver, loading, resp, dbVars>>

\* getInitialSession after supabase.auth.getSession(): on error
\* setLoading(false) and return; with a session user handleUserSession is
\* called and awaited; without one the finally block runs
GetSession(ok) ==
    /\ gis = "getSession"
    /\ IF ok /\ session # NoSession
         THEN /\ gis' = "resolving"
              /\ resolver' = [resolver EXCEPT ![1] = [pc |-> "select", authUser |-> session]]
              /\ UNCHANGED loading
         ELSE /\ gis' = "done"
              /\ loading' = FALSE
              /\ UNCHANGED resolver
    /\ UNCHANGED <<user, feedVars, toast, session, resp, dbVars>>

\* onAuthStateChange delivers SIGNED_IN with the session user
AuthStateChange ==
    /\ gis # "unmounted"
    /\ session # NoSession
    /\ resolver[2].pc = "idle"
    /\ resolver' = [resolver EXCEPT ![2] = [pc |-> "select", authUser |-> session]]
    /\ UNCHANGED <<user, feedVars, toast, session, gis, loading, resp, dbVars>>

\* handleUserSession, the request profiles.select("*").eq("id", id).single():
\* no row is the error PGRST116
ResolverSelect(i, ok) ==
    /\ resolver[i].pc = "select"
    /\ resolver' = [resolver EXCEPT ![i].pc =
                      IF ~ok THEN "selectError"
                      ELSE IF ProfileExists(resolver[i].authUser.id) THEN "found"
                      ELSE "PGRST116"]
    /\ UNCHANGED <<user, feedVars, toast, session, gis, loading, resp, dbVars>>

\* mutant: getInitialSession has no finally block
LoadingKept(i) == loading

\* the call of run i returns: getInitialSession goes on to its finally block
Returned(i) == IF i = 1 THEN "done" ELSE gis

LoadingAfter(i) == IF i = 1 THEN FALSE ELSE loading

\* handleUserSession after the select: setUser(profile), or the toast and
\* return on an error, or the insert of newProfile on PGRST116
ResolverAfterSelect(i) ==
    /\ resolver[i].pc \in {"found", "selectError", "PGRST116"}
    /\ IF resolver[i].pc = "PGRST116"
         THEN /\ resolver' = [resolver EXCEPT ![i].pc = "insert"]
              /\ UNCHANGED <<user, toast, gis, loading>>
         ELSE /\ resolver' = [resolver EXCEPT ![i] = RunIdle]
              /\ gis' = Returned(i)
              /\ loading' = LoadingAfter(i)
              /\ IF resolver[i].pc = "found"
                   THEN user' = resolver[i].authUser.id /\ UNCHANGED toast
                   ELSE /\ toast' = Destructive("Failed to load profile. Please refresh the page.")
                        /\ UNCHANGED user
    /\ UNCHANGED <<feedVars, session, resp, dbVars>>

\* handleUserSession, the request profiles.insert([newProfile]).select().single()
\* sent with the token of the session user
ResolverInsert(i, ok) ==
    /\ resolver[i].pc = "insert"
    /\ IF ok
         THEN /\ DbInsertProfileRow(resolver[i].authUser.id, newProfile(resolver[i].authUser))
              /\ resolver' = [resolver EXCEPT ![i] =
                    [pc |-> "inserted", authUser |-> resolver[i].authUser,
                     st |-> InsertProfileStatus(resolver[i].authUser.id,
                                                resolver[i].authUser.id)]]
         ELSE /\ UNCHANGED dbVars
              /\ resolver' = [resolver EXCEPT ![i] =
                    [pc |-> "inserted", authUser |-> resolver[i].authUser,
                     st |-> "transient"]]
    /\ UNCHANGED <<user, feedVars, toast, session, gis, loading, resp>>

\* mutant: the insert error is logged and no toast is shown
InsertErrorNotShown == toast

\* handleUserSession on insertError: the toast
InsertErrorToast == Destructive("Failed to create profile. Please try again.")

\* handleUserSession after the insert: on insertError the toast and return,
\* else setUser(createdProfile)
ResolverAfterInsert(i) ==
    /\ resolver[i].pc = "inserted"
    /\ resolver' = [resolver EXCEPT ![i] = RunIdle]
    /\ gis' = Returned(i)
    /\ loading' = LoadingAfter(i)
    /\ IF resolver[i].st = "ok"
         THEN user' = resolver[i].authUser.id /\ UNCHANGED toast
         ELSE /\ toast' = InsertErrorToast
              /\ UNCHANGED user
    /\ UNCHANGED <<feedVars, session, resp, dbVars>>

\* the resolver of the same user in another browser
OtherResolverInsert(u) ==
    /\ u \in Senders
    /\ DbInsertProfile(u, u)
    /\ Silent

AuthNext ==
    \/ \E m \in Metas : SignupWith(m) /\ Silent
    \/ LegacySignup /\ Silent
    \/ \E u \in Senders : DeleteAuthUser(u) /\ Silent
    \/ \E u \in Users : OtherResolverInsert(u)
    \/ \E u \in Users, m \in Metas : SignIn(u, m)
    \/ MountUseAuth
    \/ \E ok \in BOOLEAN : GetSession(ok)
    \/ AuthStateChange
    \/ \E i \in 1..2, ok \in BOOLEAN : ResolverSelect(i, ok)
    \/ \E i \in 1..2 : ResolverAfterSelect(i)
    \/ \E i \in 1..2, ok \in BOOLEAN : ResolverInsert(i, ok)
    \/ \E i \in 1..2 : ResolverAfterInsert(i)
    \/ Reload

\* ------------------- Dashboard that writes posts, likes, comments (SpecWrite)
\* The session creates posts, likes and comments; the same and the other
\* users like from other tabs. The answer of checkIfLiked stays pending here
\* (SpecLike has it).
\* what the user types: a blank text, and a text with white space after it
TypedTexts == {<<" ">>, <<"a", " ">>}

\* the counts a fetch can have read for a post
LoadedCounts == 0..1

\* fetchPosts as a whole, run to its end without an error of the posts query:
\* the posts of the database, each with any counts its count reads can report
FetchPostsAny(lc, cc) ==
    /\ user # NoUser
    /\ isLoadingPosts
    /\ fetch.pc = "idle"
    /\ feed' = [i \in 1..Len(SelectPosts) |->
                   WithCounts(SelectPosts[i], lc[SelectPosts[i].id], cc[SelectPosts[i].id])]
    /\ isLoadingPosts' = FALSE
    /\ pi' = Render(pi, feed', FALSE)
    /\ UNCHANGED <<user, fetch, toast, resp, dbVars, otherVars>>

WriteNext ==
    \/ Signup /\ Silent
    \/ \E u \in Senders, p \in PostIds : OtherInsertLike(u, p)
    \/ \E u \in Users : SessionStart(u)
    \/ Reload
    \/ \E lc, cc \in [{r.id : r \in posts} -> LoadedCounts] : FetchPostsAny(lc, cc)
    \/ \E c \in TypedTexts : TypeNewPost(c)
    \/ Cardinality(posts) < MaxLivePosts /\ HandleCreatePostStart
    \/ \E ok \in BOOLEAN : HandleCreatePostRequest(ok)
    \/ HandleCreatePostDone
    \/ \E p \in PostIds : HandleLikeStart(p)
    \/ \E p \in PostIds, ok \in BOOLEAN : HandleLikeRequest(p, ok)
    \/ \E p \in PostIds : HandleLikeDone(p)
    \/ \E p \in PostIds, c \in TypedTexts : TypeComment(p, c)
    \/ \E p \in PostIds : HandleCommentStart(p)
    \/ \E p \in PostIds, ok \in BOOLEAN : HandleCommentRequest(p, ok)
    \/ \E p \in PostIds : HandleCommentDone(p)

\* ------------------------------------------------ REST server (server.js)
\* uuidv4() is the position in the array: no element is ever removed
\* password is the bcrypt hash of the user's password
DemoUser == [id |-> 1, name |-> "Demo User", email |-> "demo@example.com",
             password |-> "$2a$10$92IX", bio |-> "dev"]

DemoPost == [id |-> 1, content |-> <<"a">>, authorId |-> 1, createdAt |-> 0]

NoRestResponse == [route |-> "none", status |-> 0, body |-> "none"]

InitRest ==
    /\ restUsers = <<DemoUser>>
    /\ restPosts = <<DemoPost>>
    /\ restNow = 0
    /\ restHashing = EmptyBag
    /\ restResp = NoRestResponse

MaxRestUsers == 2
MaxRestPosts == 3
MaxRestNow == 1

RestEmails == {"demo@example.com", "bob@example.com"}

\* the Authorization header: none, a token that does not verify, or the
\* token the server signed for a user id
NoToken == << >>
BadToken == <<0>>
Tokens == {NoToken, BadToken} \cup {<<restUsers[i].id>> : i \in 1..Len(restUsers)}

\* authenticateToken: 401 without a token, 403 when jwt.verify fails
AuthStatus(tok) == IF tok = NoToken THEN 401 ELSE IF tok = BadToken THEN 403 ELSE 200

AuthError(route, tok) ==
    [route |-> route, status |-> AuthStatus(tok),
     body |-> IF tok = NoToken THEN "Access token required" ELSE "Invalid token"]

ServerUnchanged == UNCHANGED <<restUsers, restPosts, restNow, restHashing>>

SupabaseUnchanged == UNCHANGED <<dbVars, resp, user, feed, fetch, isLoadingPosts, pi,
                                 toast, authVars, formVars>>

\* time passes between two requests
RestTick ==
    /\ restNow < MaxRestNow
    /\ restNow' = restNow + 1
    /\ UNCHANGED <<restUsers, restPosts, restHashing, restResp>>
    /\ SupabaseUnchanged

\* mutant: the user object is sent as it is stored
WithPassword(u) == u

\* const { password: _, ...userWithoutPassword } = user
WithoutPassword(u) == [f \in DOMAIN u \ {"password"} |-> u[f]]

\* the users and the register requests in flight
RestRegistered == Len(restUsers) + BagCardinality(restHashing)

\* users.find((user) => user.email === email)
FindByEmail(email) ==
    IF \E i \in 1..Len(restUsers) : restUsers[i].email = email
      THEN <<restUsers[CHOOSE i \in 1..Len(restUsers) :
                          /\ restUsers[i].email = email
                          /\ \A j \in 1..(i - 1) : restUsers[j].email # email]>>
      ELSE << >>

\* POST /api/auth/register up to the await: 400 when a user has the email,
\* else await bcrypt.hash(password, 10)
RestRegisterStart(email) ==
    /\ IF FindByEmail(email) # << >>
         THEN /\ restResp' = [route |-> "register", status |-> 400, body |-> "User already exists"]
              /\ UNCHANGED restHashing
         ELSE /\ restHashing' = restHashing (+) SetToBag({email})
              /\ UNCHANGED restResp
    /\ UNCHANGED <<restUsers, restPosts, restNow>>
    /\ SupabaseUnchanged

\* POST /api/auth/register after the await: users.push(user) and 201 with
\* the token; when bcrypt.hash throws (no password in the body), 500
RestRegisterDone(email, hashed) ==
    /\ BagIn(email, restHashing)
    /\ restHashing' = restHashing (-) SetToBag({email})
    /\ IF hashed
         THEN LET u == [id |-> Len(restUsers) + 1, name |-> "Bob", email |-> email,
                            password |-> "$2a$10$hash", bio |-> ""]
              IN /\ restUsers' = Append(restUsers, u)
                 /\ restResp' = [route |-> "register", status |-> 201,
                                 body |-> [token |-> <<u.id>>,
                                           user |-> WithoutPassword(u)]]
         ELSE /\ restResp' = [route |-> "register", status |-> 500, body |-> "Server error"]
              /\ UNCHANGED restUsers
    /\ UNCHANGED <<restPosts, restNow>>
    /\ SupabaseUnchanged

\* POST /api/auth/login
RestLogin(email, isValidPassword) ==
    /\ IF isValidPassword /\ FindByEmail(email) # << >>
         THEN LET u == FindByEmail(email)[1]
              IN restResp' = [route |-> "login", status |-> 200,
                              body |-> [token |-> <<u.id>>,
                                        user |-> WithoutPassword(u)]]
         ELSE restResp' = [route |-> "login", status |-> 400, body |-> "Invalid credentials"]
    /\ ServerUnchanged
    /\ SupabaseUnchanged

\* users.find((user) => user.id === id) finds a user
HasUser(id) == \E i \in 1..Len(restUsers) : restUsers[i].id = id

getUserById(id) == restUsers[CHOOSE i \in 1..Len(restUsers) : restUsers[i].id = id]

\* author.id of the map callback throws a TypeError when getUserById returns
\* undefined for one post of the list
AuthorsKnown(postList) == \A i \in 1..Len(postList) : HasUser(postList[i].authorId)

\* author: { id: author.id, name: author.name, email: author.email, bio: author.bio }
AuthorOf(u) == [id |-> u.id, name |-> u.name, email |-> u.email, bio |-> u.bio]

\* { ...post, author: { id, name, email, bio } }
WithAuthor(post) ==
    [id |-> post.id, content |-> post.content, authorId |-> post.authorId,
     createdAt |-> post.createdAt, author |-> AuthorOf(getUserById(post.authorId))]

\* mutant: the list is returned in the order of the array
SortNothing(list) == list

RECURSIVE SortByCreatedAtDesc(_)
\* .sort((a, b) => new Date(b.createdAt) - new Date(a.createdAt)): the sort
\* is stable, posts of one instant stay in the order of the array
SortByCreatedAtDesc(list) ==
    IF list = << >> THEN << >>
    ELSE LET first == CHOOSE i \in 1..Len(list) :
                         /\ \A j \in 1..Len(list) : list[j].createdAt <= list[i].createdAt
                         /\ \A j \in 1..(i - 1) : list[j].createdAt < list[i].createdAt
         IN <<list[first]>> \o
            SortByCreatedAtDesc(SubSeq(list, 1, first - 1) \o
                                SubSeq(list, first + 1, Len(list)))

getPostsWithAuthors(postList) ==
    SortByCreatedAtDesc([i \in 1..Len(postList) |-> WithAuthor(postList[i])])

\* GET /api/posts
RestListPosts(tok) ==
    /\ restResp' = IF AuthStatus(tok) # 200 THEN AuthError("list posts", tok)
                   ELSE IF AuthorsKnown(restPosts)
                     THEN [route |-> "list posts", status |-> 200,
                           body |-> getPostsWithAuthors(restPosts)]
                     ELSE [route |-> "list posts", status |-> 500, body |-> "Server error"]
    /\ ServerUnchanged
    /\ SupabaseUnchanged

\* POST /api/posts: the content of the body is stored as it is; posts.push(post)
\* comes before getUserById(userId), whose undefined result throws into the
\* catch block
RestCreatePost(tok, content) ==
    /\ Len(restPosts) < MaxRestPosts
    /\ IF AuthStatus(tok) # 200
         THEN /\ restResp' = AuthError("create post", tok)
              /\ UNCHANGED restPosts
         ELSE LET post == [id |-> Len(restPosts) + 1, content |-> content,
                           authorId |-> tok[1], createdAt |-> restNow]
              IN /\ restPosts' = Append(restPosts, post)
                 /\ restResp' = IF HasUser(tok[1])
                                  THEN [route |-> "create post", status |-> 201,
                                        body |-> WithAuthor(post)]
                                  ELSE [route |-> "create post", status |-> 500,
                                        body |-> "Server error"]
    /\ UNCHANGED <<restUsers, restNow, restHashing>>
    /\ SupabaseUnchanged

\* GET /api/users/:id: 404 when no user has the id
RestGetUser(tok, id) ==
    /\ restResp' = IF AuthStatus(tok) # 200 THEN AuthError("get user", tok)
                   ELSE IF HasUser(id)
                     THEN [route |-> "get user", status |-> 200,
                           body |-> WithoutPassword(getUserById(id))]
                     ELSE [route |-> "get user", status |-> 404, body |-> "User not found"]
    /\ ServerUnchanged
    /\ SupabaseUnchanged

\* posts.filter((post) => post.authorId === req.params.id)
UserPosts(id) == SelectSeq(restPosts, LAMBDA post : post.authorId = id)

\* GET /api/users/:id/posts
RestUserPosts(tok, id) ==
    /\ restResp' = IF AuthStatus(tok) # 200 THEN AuthError("user posts", tok)
                   ELSE IF AuthorsKnown(UserPosts(id))
                     THEN [route |-> "user posts", status |-> 200,
                           body |-> getPostsWithAuthors(UserPosts(id))]
                     ELSE [route |-> "user posts", status |-> 500, body |-> "Server error"]
    /\ ServerUnchanged
    /\ SupabaseUnchanged

\* ---------------------- creating and listing posts, either way (SpecCreate)
\* The two transports are alternatives: a run uses the REST server, or the
\* database of Supabase with a Dashboard whose session creates posts while the
\* other users create and delete posts and accounts are deleted.
RestUnused == restUsers = <<DemoUser>> /\ restPosts = <<DemoPost>>
                 /\ restNow = 0 /\ restHashing = EmptyBag
                 /\ restResp = NoRestResponse

SupabaseUnused == nextUserId = 1

\* what a client sends as content
RestContents == TypedTexts \cup {<< >>}

CreateNext ==
    \/ SupabaseUnused /\ RestTick
    \/ SupabaseUnused /\ \E email \in RestEmails :
           RestRegistered < MaxRestUsers /\ RestRegisterStart(email)
    \/ SupabaseUnused /\ \E email \in RestEmails, hashed \in BOOLEAN :
           RestRegisterDone(email, hashed)
    \/ SupabaseUnused /\ \E email \in RestEmails, pw \in BOOLEAN : RestLogin(email, pw)
    \/ SupabaseUnused /\ \E tok \in Tokens : RestListPosts(tok)
    \/ SupabaseUnused /\ \E tok \in Tokens, c \in RestContents : RestCreatePost(tok, c)
    \/ Signup /\ Silent /\ RestUnused
    \/ \E u \in Senders : DeleteAuthUser(u) /\ Silent
    \/ \E u \in Senders : OtherInsertPost(u)
    \/ \E u \in Senders, p \in PostIds : OtherDeletePost(u, p)
    \/ \E u \in Users : Login(u)
    \/ Reload
    \/ AuthRefresh
    \/ \E ok \in BOOLEAN : FetchPostsSelect(ok)
    \/ \E p \in PostIds, ok \in BOOLEAN : FetchLikeCount(p, ok)
    \/ \E p \in PostIds, ok \in BOOLEAN : FetchCommentCount(p, ok)
    \/ FetchPostsDone
    \/ \E c \in TypedTexts : TypeNewPost(c)
    \/ HandleCreatePostStart
    \/ \E ok \in BOOLEAN : HandleCreatePostRequest(ok)
    \/ HandleCreatePostDone

\* ----------------------------------- listing posts, either way (SpecList)
\* A run uses the REST server, or the database of Supabase with a Dashboard
\* that fetches its list while the users post, like and comment.
ListNext ==
    \/ SupabaseUnused /\ RestTick
    \/ SupabaseUnused /\ \E email \in RestEmails :
           RestRegistered < MaxRestUsers /\ RestRegisterStart(email)
    \/ SupabaseUnused /\ \E email \in RestEmails, hashed \in BOOLEAN :
           RestRegisterDone(email, hashed)
    \/ SupabaseUnused /\ \E tok \in Tokens : RestListPosts(tok)
    \/ SupabaseUnused /\ \E tok \in Tokens, c \in RestContents : RestCreatePost(tok, c)
    \/ Signup /\ Silent /\ RestUnused
    \/ \E u \in Senders : OtherInsertPost(u)
    \/ \E u \in Senders, p \in PostIds : OtherInsertLike(u, p)
    \/ \E u \in Senders, p \in PostIds : OtherInsertComment(u, p)
    \/ \E u \in Users : Login(u)
    \/ \E ok \in BOOLEAN : FetchPostsSelect(ok)
    \/ \E p \in PostIds, ok \in BOOLEAN : FetchLikeCount(p, ok)
    \/ \E p \in PostIds, ok \in BOOLEAN : FetchCommentCount(p, ok)
    \/ FetchPostsDone

\* --------------- one PostInteractions that lists comments (SpecComments)
\* The users post, comment and delete their comments, and accounts are
\* deleted, while the session opens the comments of a post.
CommentsNext ==
    \/ Signup /\ Silent
    \/ \E u \in Senders : DeleteAuthUser(u) /\ Silent
    \/ \E u \in Senders : OtherInsertPost(u)
    \/ \E u \in Senders, p \in PostIds : OtherInsertCommentRow(u, p, OtherContent)
    \/ \E u \in Senders, r \in BagToSet(comments) : OtherDeleteComment(u, r)
    \/ \E u \in Users : SessionStart(u)
    \/ Reload
    \/ \E p \in PostIds : MountOne(p, 0)
    \/ \E p \in PostIds : UnmountOne(p)
    \/ \E p \in PostIds : HandleCommentsClick(p)
    \/ \E p \in PostIds : CloseComments(p)
    \/ \E p \in PostIds, ok \in BOOLEAN : FetchCommentsSelect(p, ok)
    \/ \E p \in PostIds : FetchCommentsDone(p)

Init ==
    /\ InitDb
    /\ InitClient
    /\ InitRest
    /\ resp = NoResponse

\* The database under every statement any session can send, each response recorded.
ApiNext ==
    \/ AdminSignup
    \/ \E u \in Senders : AdminDeleteUser(u)
    \/ \E pr \in Senders, u \in Senders, c \in Contents : ApiInsertPost(pr, u, c)
    \/ \E pr \in Senders, p \in PostIds, u \in Senders, c \in Contents :
           ApiUpdatePost(pr, p, u, c)
    \/ \E pr \in Senders, p \in PostIds : ApiDeletePost(pr, p)
    \/ \E pr \in Senders, u \in Senders, p \in PostIds : ApiInsertLike(pr, u, p)
    \/ \E pr \in Senders, u \in Senders, p \in PostIds : ApiDeleteLike(pr, u, p)
    \/ \E pr \in Senders, u \in Senders, p \in PostIds, c \in Contents :
           ApiInsertComment(pr, u, p, c)
    \/ \E pr \in Senders, r \in BagToSet(comments), u \in Senders, c \in Contents :
           ApiUpdateComment(pr, r, u, c)
    \/ \E pr \in Senders, r \in BagToSet(comments) : ApiDeleteComment(pr, r)
    \/ \E pr \in Senders, u \in Senders : ApiInsertProfile(pr, u)

\* The profiles under every statement any session can send (SpecProfile)
\* the names an update sets
ProfileNames == {"Ann", "Zoe"}

ProfileNext ==
    \/ AdminSignup
    \/ \E u \in Senders : AdminDeleteUser(u)
    \/ \E pr \in Senders : ApiInsertPost(pr, pr, OtherContent)
    \/ \E pr \in Senders \cup {Anon}, u \in Senders : ApiInsertProfile(pr, u)
    \/ \E pr \in Senders \cup {Anon}, u \in Senders, id \in Senders, name \in ProfileNames :
           ApiUpdateProfile(pr, u, id, name)
    \/ \E pr \in Senders \cup {Anon}, u \in Senders : ApiDeleteProfile(pr, u)

SpecProfile == Init /\ [][ProfileNext]_vars

SpecApi == Init /\ [][ApiNext]_vars

SpecFeed == Init /\ [][FeedNext]_vars

SpecLike == Init /\ [][LikeNext]_vars

SpecAuth == Init /\ [][AuthNext]_vars

\* a step of the getInitialSession call: an answer of supabase.auth or of
\* the database arrives, or the code after an await runs
InitialSessionStep ==
    \/ \E ok \in BOOLEAN : GetSession(ok)
    \/ \E ok \in BOOLEAN : ResolverSelect(1, ok)
    \/ ResolverAfterSelect(1)
    \/ \E ok \in BOOLEAN : ResolverInsert(1, ok)
    \/ ResolverAfterInsert(1)

\* useAuth where every request of getInitialSession is answered, with data
\* or with an error
SpecAuthLive == Init /\ [][AuthNext]_vars /\ WF_vars(InitialSessionStep)

SpecWrite == Init /\ [][WriteNext]_vars

SpecCreate == Init /\ [][CreateNext]_vars

SpecList == Init /\ [][ListNext]_vars

SpecToggle == Init /\ [][ToggleNext]_vars

\* ------------------------------- the REST server on its own (SpecRest)
\* Requests of any clients, the register requests overlapping.
MaxRegistered == 3

\* The users array is lost when the process ends, JWT_SECRET is the same in
\* every run and jwt.sign sets no expiry: a token that an earlier run signed
\* for a user it had registered still verifies. Its userId is a uuid of that
\* run, the id of no user of this run.
StaleUserId == MaxRegistered + 2

StaleToken == <<StaleUserId>>

RestTokens == Tokens \cup {StaleToken}

\* the :id of a request path: the id of a user, or of none
RestUserIds == 1..StaleUserId

RestNext ==
    \/ RestTick
    \/ \E email \in RestEmails : RestRegistered < MaxRegistered /\ RestRegisterStart(email)
    \/ \E email \in RestEmails, hashed \in BOOLEAN : RestRegisterDone(email, hashed)
    \/ \E email \in RestEmails, pw \in BOOLEAN : RestLogin(email, pw)
    \/ \E tok \in RestTokens : RestListPosts(tok)
    \/ \E tok \in RestTokens, c \in RestContents : RestCreatePost(tok, c)
    \/ \E tok \in RestTokens, id \in RestUserIds : RestGetUser(tok, id)
    \/ \E tok \in RestTokens, id \in RestUserIds : RestUserPosts(tok, id)

SpecRest == Init /\ [][RestNext]_vars

SpecComments == Init /\ [][CommentsNext]_vars

\* The database alone: the same statements, sent by any user or anonymously.
AnySender == Senders \cup {Anon}

Quiet == UNCHANGED <<resp, clientVars>>

DbNext ==
    \/ Signup /\ Quiet
    \/ \E u \in Senders : DeleteAuthUser(u) /\ Quiet
    \/ \E pr \in AnySender, u \in Senders, c \in Contents : DbInsertPost(pr, u, c) /\ Quiet
    \/ \E pr \in AnySender, p \in PostIds, u \in Senders, c \in Contents :
           DbUpdatePost(pr, p, u, c) /\ Quiet
    \/ \E pr \in AnySender, p \in PostIds : DbDeletePost(pr, p) /\ Quiet
    \/ \E pr \in AnySender, u \in Senders, p \in PostIds : DbInsertLike(pr, u, p) /\ Quiet
    \/ \E pr \in AnySender, u \in Senders, p \in PostIds : DbDeleteLike(pr, u, p) /\ Quiet
    \/ \E pr \in AnySender, u \in Senders, p \in PostIds, c \in Contents :
           DbInsertComment(pr, u, p, c) /\ Quiet
    \/ \E pr \in AnySender, r \in BagToSet(comments), u \in Senders, c \in Contents :
           DbUpdateComment(pr, r, u, c) /\ Quiet
    \/ \E pr \in AnySender, r \in BagToSet(comments) : DbDeleteComment(pr, r) /\ Quiet
    \/ \E pr \in AnySender, u \in Senders : DbInsertProfile(pr, u) /\ Quiet

SpecDb == Init /\ [][DbNext]_vars

\* ================================================================== claims

\* the response of the step is that of a statement on an existing post sent
\* by a principal that is not its owner
NonOwnerOnPost(r) ==
    /\ r.op \in {"updatePost", "deletePost"}
    /\ PostExists(r.p)
    /\ PostRow(r.p).user_id # r.pr

\* ... on an existing comment (r.u is the user_id of the targeted row)
NonOwnerOnComment(r) ==
    /\ r.op \in {"updateComment", "deleteComment"}
    /\ r.u # r.pr

\* C1: under every interleaving of like inserts, unlikes, post deletions and
\* profile deletions, the likes table holds at most one row for each
\* (user, post) pair.
C1_OneLikePerUserAndPost ==
    \A u \in Users, p \in PostIds :
        BagCardinality(RowsIn(likes, LikeRows(likes, u, p))) <= 1

\* a second insert for a pair that has its row was refused, and two users
\* have their rows on one post
C1_Witness ==
    /\ resp.op = "insertLike" /\ resp.st = "conflict"
    /\ \E p \in PostIds : Cardinality({r.user_id : r \in {x \in BagToSet(likes) : x.post_id = p}}) = 2

C4_OwnerIsCreator ==
    /\ \A r \in posts : r.user_id = r.by
    /\ \A r \in BagToSet(likes) : r.user_id = r.by
    /\ \A r \in BagToSet(comments) : r.user_id = r.by
    /\ (resp.op \in {"insertPost", "insertLike", "insertComment", "insertProfile"}
          /\ resp.st = "ok") => resp.u = resp.pr

\* an insert in the name of another user was refused while rows of both
\* users exist
C4_Witness ==
    /\ resp.op \in {"insertPost", "insertLike", "insertComment"}
    /\ resp.u # resp.pr /\ resp.st = "rls"
    /\ {r.user_id : r \in posts} \cup {r.user_id : r \in BagToSet(likes)} = Users

\* the ids of the posts that were created and are gone
GonePosts == {p \in 1..(nextPostId - 1) : ~PostExists(p)}

\* the ids of the users that signed up and have no profile any more
GoneProfiles == {u \in 1..(nextUserId - 1) : ~ProfileExists(u)}

\* C5: once a post is deleted, no like row and no comment row references it,
\* whoever inserted those rows.
C5_NoRowsOnDeletedPost ==
    \A p \in GonePosts : CountLikes(p) = 0 /\ CountComments(p) = 0

\* a post was deleted by a statement (no user is gone) while its owner and
\* another user are there and the other post still has a like
C5_Witness ==
    /\ GonePosts # {}
    /\ GoneProfiles = {} /\ BagCardinality(profiles) = MaxUsers
    /\ \E q \in PostIds : PostExists(q) /\ CountLikes(q) > 0

\* C6: once the profile of a user is deleted, no post, like or comment of
\* that user remains, and every remaining like and comment is on a post
\* whose owner still has a profile.
C6_NothingLeftOfDeletedProfile ==
    /\ \A u \in GoneProfiles :
          /\ PostsOfProfile(u) = {}
          /\ \A r \in BagToSet(likes) \cup BagToSet(comments) : r.user_id # u
    /\ \A r \in BagToSet(likes) \cup BagToSet(comments) :
          PostExists(r.post_id) /\ ProfileExists(PostRow(r.post_id).user_id)

\* a user is gone, one of the posts is gone with it, and the user that is
\* left has a post with a like
C6_Witness ==
    /\ GoneProfiles # {} /\ GonePosts # {}
    /\ \E q \in PostIds : PostExists(q) /\ CountLikes(q) > 0

\* the step is the like request of the component of post p reaching the
\* database: kind is "like" or "unlike"
LikeRequestReaches(p, kind) ==
    /\ HandleLikeRequest(p, TRUE)
    /\ pi[p].like.kind = kind

\* the step is handleLike of post p going on after the answer to its request
LikeAnswered(p, kind) ==
    /\ HandleLikeDone(p)
    /\ pi[p].like.kind = kind

\* C2: a like insert for a (user, post) pair that has its row is answered
\* with the conflict error and adds no row, so the like count of the post is
\* what it was; handleLike reports the error in a destructive toast and
\* leaves the displayed count and the liked flag alone.
C2_DuplicateLikeIsReported ==
    [][\A p \in PostIds :
        /\ (LikeRequestReaches(p, "like") /\ LikeRows(likes, user, p) # {})
             => (/\ pi'[p].like.st = "conflict"
                 /\ likes' = likes
                 /\ CountLikes(p)' = CountLikes(p))
        /\ (LikeAnswered(p, "like") /\ pi[p].like.st = "conflict")
             => (/\ toast' = Destructive("conflict")
                 /\ pi'[p].likeCount = pi[p].likeCount
                 /\ pi'[p].isLiked = pi[p].isLiked)]_vars

\* the conflict was reported, and the pair still has exactly one row
C2_Witness ==
    /\ toast = Destructive("conflict")
    /\ \E p \in PostIds :
          /\ pi[p].mounted /\ ~pi[p].isLoadingLike
          /\ BagCardinality(RowsIn(likes, LikeRows(likes, user, p))) = 1

\* C8: an unlike for a pair that has no row removes nothing and is answered
\* without an error, and the like count a component displays is never
\* negative.
C8_UnlikeWithoutRowAndFloor ==
    /\ [](\A p \in PostIds : pi[p].mounted => pi[p].likeCount >= 0)
    /\ [][\A p \in PostIds :
            (LikeRequestReaches(p, "unlike") /\ LikeRows(likes, user, p) = {})
              => (pi'[p].like.st = "ok" /\ UNCHANGED dbVars)]_vars

\* an unlike went through for a component that displays zero, and the pair
\* has no row
C8_Witness ==
    /\ toast = Success("Post unliked!")
    /\ \E p \in PostIds :
          /\ pi[p].mounted /\ pi[p].likeCount = 0 /\ ~pi[p].isLiked
          /\ LikeRows(likes, user, p) = {}

\* what C9 says of a toggle of kind "like" or "unlike" on post p
ToggleEffect(p) ==
    /\ LikeRequestReaches(p, "unlike") => LikeRows(likes', user, p) = {}
    /\ LikeRequestReaches(p, "like") =>
          /\ CountLikes(p)' = CountLikes(p) + 1
          /\ BagCardinality(RowsIn(likes', LikeRows(likes', user, p))) = 1
    /\ LikeAnswered(p, "unlike") =>
          /\ pi'[p].likeCount = (IF pi[p].likeCount > 0 THEN pi[p].likeCount - 1 ELSE 0)
          /\ pi'[p].isLiked = FALSE
    /\ LikeAnswered(p, "like") =>
          /\ pi'[p].likeCount = pi[p].likeCount + 1
          /\ pi'[p].isLiked = TRUE

\* the request of the step, or the request the step goes on after, was
\* answered without an error
ToggleSucceeds(p) ==
    \/ HandleLikeRequest(p, TRUE) /\ pi'[p].like.st = "ok"
    \/ HandleLikeDone(p) /\ pi[p].like.st = "ok"

\* C9 (as stated): every toggle deletes or inserts the row, moves the
\* displayed count by one (not below zero) and flips the liked flag.
C9_ToggleAlwaysTakesEffect ==
    [][\A p \in PostIds : ToggleEffect(p)]_vars

\* C9 (amended): a toggle whose request is answered without an error deletes
\* or inserts the row, moves the displayed count by one (not below zero) and
\* flips the liked flag; a toggle whose request fails changes neither the
\* rows, nor the displayed count, nor the flag.
C9_ToggleTakesEffectOnSuccess ==
    [][\A p \in PostIds :
        /\ ToggleSucceeds(p) => ToggleEffect(p)
        /\ ((HandleLikeRequest(p, TRUE) \/ HandleLikeRequest(p, FALSE))
              /\ pi'[p].like.st # "ok") => UNCHANGED dbVars
        /\ (HandleLikeDone(p) /\ pi[p].like.st # "ok")
              => (/\ pi'[p].likeCount = pi[p].likeCount
                  /\ pi'[p].isLiked = pi[p].isLiked)]_vars

\* a like went through: the component shows it and the row is there
C9_Witness ==
    /\ toast = Success("Post liked!")
    /\ \E p \in PostIds :
          /\ pi[p].mounted /\ pi[p].isLiked /\ pi[p].likeCount > 0
          /\ LikeRows(likes, user, p) # {}

\* the counts the view reports are the numbers of rows
ViewCountsEqualRows ==
    \A row \in posts_with_counts :
        /\ row.like_count = CountLikes(row.id)
        /\ row.comment_count = CountComments(row.id)

\* C7: the like_count and the comment_count reported for a post, by the view
\* posts_with_counts and by each count read of fetchPosts, are the numbers of
\* like rows and comment rows that reference the post.
C7_ReportedCountsEqualRows ==
    /\ []ViewCountsEqualRows
    /\ [][\A p \in PostIds :
            /\ (FetchLikeCount(p, TRUE) \/ FetchLikeCount(p, FALSE))
                 => fetch'.lc[p] = CountLikes(p)
            /\ (FetchCommentCount(p, TRUE) \/ FetchCommentCount(p, FALSE))
                 => fetch'.cc[p] = CountComments(p)]_vars

\* C10: when fetchPosts completes, every post of the feed is displayed with
\* the like count and the comment count this fetch read.
C10_FetchCorrectsDisplayedCounts ==
    [][FetchPostsDone =>
         \A p \in SeqIds(feed') :
             /\ pi'[p].mounted
             /\ pi'[p].likeCount = FeedRow(feed', p).like_count
             /\ pi'[p].commentCount = FeedRow(feed', p).comment_count]_vars

\* the like rows of the pairs other than (u, p)
OtherLikes(l, u, p) == RowsIn(l, BagToSet(l) \ LikeRows(l, u, p))

\* C11: under every interleaving of the like and unlike requests of the
\* users, each request is decided on the rows of its own (user, post) pair: a
\* like that is answered without an error leaves exactly one row of the pair,
\* a user's unlike leaves none, a like that is answered with an error changes
\* nothing, and no request touches the row of another pair. So the like rows
\* of a post are those of the users whose last successful request was a like,
\* and no pair ever has two rows.
C11_LikeRequestsAreIndependent ==
    /\ [](\A u \in Users, p \in PostIds :
             BagCardinality(RowsIn(likes, LikeRows(likes, u, p))) \in {0, 1})
    /\ [][/\ (resp'.op = "insertLike" /\ resp'.st = "ok")
               => BagCardinality(RowsIn(likes', LikeRows(likes', resp'.u, resp'.p))) = 1
          /\ (resp'.op = "insertLike" /\ resp'.st # "ok") => likes' = likes
          /\ (resp'.op = "deleteLike" /\ resp'.pr = resp'.u)
               => (resp'.st = "ok" /\ LikeRows(likes', resp'.u, resp'.p) = {})
          /\ (resp'.op \in {"insertLike", "deleteLike"})
               => OtherLikes(likes', resp'.u, resp'.p) = OtherLikes(likes, resp'.u, resp'.p)]_vars

\* a user's unlike removed the user's row from a post that keeps the like of
\* the other user
C11_Witness ==
    /\ resp.op = "deleteLike" /\ resp.pr = resp.u /\ resp.n = 1
    /\ LikeRows(likes, resp.u, resp.p) = {}
    /\ \E v \in Users : v # resp.u /\ LikeRows(likes, v, resp.p) # {}

\* the number of profile rows with id u
ProfileCount(b, u) == BagCardinality(RowsIn(b, {r \in BagToSet(b) : r.id = u}))

\* the step is the return of resolver run i
ResolverReturns(i) ==
    \/ ResolverAfterSelect(i) /\ resolver[i].pc # "PGRST116"
    \/ ResolverAfterInsert(i)

\* C12 (as stated): no principal ever has two profile rows, and when a run
\* of the resolver returns, the principal it ran for has exactly one.
C12_OneProfileAfterResolver ==
    /\ [](\A u \in Users : ProfileCount(profiles, u) <= 1)
    /\ [][\A i \in 1..2 :
            ResolverReturns(i) => ProfileCount(profiles', resolver[i].authUser.id) = 1]_vars

\* C12 (amended): no principal ever has two profile rows, overlapping runs
\* included; when the lookup of a run finds the profile, or its insert is
\* accepted or refused as a duplicate, the principal has exactly one profile
\* row at that point; a run whose insert is answered with any error adds no
\* row.
C12_OneProfileWhenResolved ==
    /\ [](\A u \in Users : ProfileCount(profiles, u) <= 1)
    /\ [][\A i \in 1..2 :
            /\ (ResolverSelect(i, TRUE) /\ resolver'[i].pc = "found")
                 => ProfileCount(profiles', resolver[i].authUser.id) = 1
            /\ (ResolverInsert(i, TRUE) /\ resolver'[i].st \in {"ok", "conflict"})
                 => ProfileCount(profiles', resolver[i].authUser.id) = 1
            /\ ((ResolverInsert(i, TRUE) \/ ResolverInsert(i, FALSE))
                   /\ resolver'[i].st # "ok") => profiles' = profiles]_vars

\* two runs for one principal overlapped: the insert of one was accepted and
\* that of the other refused, and the principal has one row
C12_Witness ==
    /\ \E i, j \in 1..2 :
          /\ resolver[i].pc = "inserted" /\ resolver[i].st = "ok"
          /\ resolver[j].pc = "inserted" /\ resolver[j].st = "conflict"
    /\ ProfileCount(profiles, session.id) = 1

\* the name and the bio C13 gives a created profile
ClaimedName(a) ==
    IF a.name # Absent THEN a.name[1]
    ELSE IF a.email # Absent THEN a.email[1]
    ELSE "New User"

ClaimedBio(a) == IF a.bio # Absent THEN a.bio[1] ELSE ""

\* C13: the row the resolver creates has the signup name if there is one,
\* else the local part of the email, else "New User", and the signup bio or
\* the empty string.
C13_CreatedProfileDefaults ==
    [][\A i \in 1..2 :
         (ResolverInsert(i, TRUE) /\ resolver'[i].st = "ok")
           => \A r \in BagToSet(profiles') \ BagToSet(profiles) :
                 /\ r.name = ClaimedName(resolver[i].authUser)
                 /\ r.bio = ClaimedBio(resolver[i].authUser)]_vars

\* C14: when the insert of the resolver fails, the run shows the destructive
\* toast and sets no user; when getInitialSession finds no principal, the
\* hook ends with no user and loading false, which sends the page to "/".
C14_ResolverFailureIsReported ==
    [][/\ \A i \in 1..2 :
            (ResolverAfterInsert(i) /\ resolver[i].st # "ok")
              => (/\ toast' = Destructive("Failed to create profile. Please try again.")
                  /\ user' = user)
       /\ ((GetSession(TRUE) \/ GetSession(FALSE)) /\ session = NoSession)
              => (user' = NoUser /\ loading' = FALSE /\ gis' = "done")]_vars

\* the insert of a run was refused because the profile had been created
\* first, and the toast tells it
C14_Witness ==
    /\ toast = Destructive("Failed to create profile. Please try again.")
    /\ session # NoSession /\ ProfileCount(profiles, session.id) = 1
    /\ \A i \in 1..2 : resolver[i].pc = "idle"

\* C16: a createPost that succeeds inserts exactly one posts row, owned by
\* the acting user, and returns it joined with the profile of that user; the
\* handler puts it in front of the list with like_count 0 and comment_count 0.
C16_CreatedPostIsReturnedWithZeroCounts ==
    [][/\ (HandleCreatePostRequest(TRUE) /\ create'.st = "ok")
            => /\ posts \subseteq posts'
               /\ Cardinality(posts' \ posts) = 1
               /\ \A r \in posts' \ posts :
                     /\ r.user_id = user /\ r.by = user
                     /\ r.content = create.content
                     /\ create'.data = <<[id |-> r.id, content |-> r.content,
                                          profiles |-> create'.data[1].profiles]>>
                     /\ Len(create'.data[1].profiles) = 1
                     /\ create'.data[1].profiles[1].id = user
                     /\ BagIn(create'.data[1].profiles[1], profiles)
       /\ (HandleCreatePostDone /\ create.st = "ok")
            => /\ feed' = <<feed'[1]>> \o create.posts
               /\ feed'[1].id = create.data[1].id
               /\ feed'[1].content = create.data[1].content
               /\ feed'[1].profiles = create.data[1].profiles
               /\ feed'[1].like_count = 0 /\ feed'[1].comment_count = 0]_vars

\* the post of the session user was created and put in front of an older
\* post of the list
C16_Witness ==
    /\ toast = Success("Post created successfully!")
    /\ Len(feed) = 2
    /\ feed[1].like_count = 0 /\ feed[1].comment_count = 0
    /\ feed[1].profiles # << >> /\ feed[1].profiles[1].id = user
    /\ \E r \in posts : r.id = feed[1].id /\ r.user_id = user

\* what a PostInteractions component displays
Displayed(c) ==
    IF c.mounted
      THEN [isLiked |-> c.isLiked, likeCount |-> c.likeCount,
            commentCount |-> c.commentCount, comments |-> c.comments]
      ELSE [mounted |-> FALSE]

\* C19: a like insert, like delete, comment insert or post insert that is
\* answered with an error changes no row, and the handler that receives the
\* error leaves the liked flag, the counts, the comment list and the post
\* list as they were and clears its loading flag, so that it can be called
\* again.
C19_FailedWriteChangesNothing ==
    [][/\ \A p \in PostIds :
            /\ ((HandleLikeRequest(p, TRUE) \/ HandleLikeRequest(p, FALSE))
                   /\ pi'[p].like.st # "ok") => UNCHANGED dbVars
            /\ (HandleLikeDone(p) /\ pi[p].like.st # "ok")
                 => /\ UNCHANGED <<dbVars, feed>>
                    /\ \A q \in PostIds : Displayed(pi'[q]) = Displayed(pi[q])
                    /\ ~pi'[p].isLoadingLike /\ pi'[p].like = NoRequest
            /\ ((HandleCommentRequest(p, TRUE) \/ HandleCommentRequest(p, FALSE))
                   /\ pi'[p].comment.st # "ok") => UNCHANGED dbVars
            /\ (HandleCommentDone(p) /\ pi[p].comment.st # "ok")
                 => /\ UNCHANGED <<dbVars, feed>>
                    /\ \A q \in PostIds : Displayed(pi'[q]) = Displayed(pi[q])
                    /\ pi'[p].newComment = pi[p].newComment
                    /\ ~pi'[p].isLoadingComment /\ pi'[p].comment = NoRequest
       /\ ((HandleCreatePostRequest(TRUE) \/ HandleCreatePostRequest(FALSE))
              /\ create'.st # "ok") => UNCHANGED dbVars
       /\ (HandleCreatePostDone /\ create.st # "ok")
            => /\ UNCHANGED <<dbVars, feed, newPost>>
               /\ \A q \in PostIds : Displayed(pi'[q]) = Displayed(pi[q])
               /\ ~isLoading' /\ create' = NoRequest]_vars

\* the like of the session was refused as a duplicate: the row of the other
\* tab is there, the component shows the post as not liked and can be used
C19_Witness ==
    /\ toast = Destructive("conflict")
    /\ \E p \in PostIds :
          /\ pi[p].mounted /\ ~pi[p].isLiked /\ ~pi[p].isLoadingLike
          /\ BagCardinality(RowsIn(likes, LikeRows(likes, user, p))) = 1

\* C20: handleComment sends no request for a text that is empty after
\* trimming; a request that succeeds inserts exactly one comments row, of the
\* acting user on the post of the component with the trimmed text, and
\* returns it joined with the profile of that user; the handler appends the
\* returned row to the displayed list and raises the displayed count by one.
C20_CommentIsInsertedAndShown ==
    /\ [](\A p \in PostIds :
            (pi[p].mounted /\ pi[p].comment.kind = "comment")
              => (pi[p].comment.content # << >>
                  /\ Head(pi[p].comment.content) # " "
                  /\ pi[p].comment.content[Len(pi[p].comment.content)] # " "))
    /\ [][\A p \in PostIds :
            /\ HandleCommentStart(p)
                 => /\ pi'[p].comment.content # << >>
                    /\ \E a, b \in Texts :
                          /\ pi[p].newComment = a \o pi'[p].comment.content \o b
                          /\ \A i \in 1..Len(a) : a[i] = " "
                          /\ \A i \in 1..Len(b) : b[i] = " "
            /\ (HandleCommentRequest(p, TRUE) /\ pi'[p].comment.st = "ok")
                 => /\ comments' = comments (+) SetToBag({[user_id |-> user,
                            post_id |-> p, content |-> pi[p].comment.content,
                            by |-> user, created_at |-> NewCreatedAt]})
                    /\ Len(pi'[p].comment.data) = 1
                    /\ pi'[p].comment.data[1].content = pi[p].comment.content
                    /\ Len(pi'[p].comment.data[1].profiles) = 1
                    /\ pi'[p].comment.data[1].profiles[1].id = user
            /\ (HandleCommentDone(p) /\ pi[p].comment.st = "ok")
                 => /\ pi'[p].comments = pi[p].comments \o <<pi[p].comment.data[1]>>
                    /\ pi'[p].commentCount = pi[p].commentCount + 1
            /\ (comments' # comments)
                 => \E q \in PostIds : HandleCommentRequest(q, TRUE)]_vars

\* the second comment of the session was appended to the displayed list
C20_Witness ==
    \E p \in PostIds :
        /\ pi[p].mounted /\ Len(pi[p].comments) = 2
        /\ pi[p].commentCount >= 2
        /\ pi[p].comments[2].profiles # << >>
        /\ toast = Success("Comment added successfully!")
        /\ BagCardinality(comments) = 2

\* C15: a createPost whose content is empty after trimming is refused with a
\* validation error and stores no post: the Dashboard handler sends no
\* request for it, and the REST route answers it with an error status and
\* leaves its posts alone.
C15_BlankPostIsRejected ==
    /\ [](create.kind = "post" => Trim(create.content) # << >>)
    /\ [][\A tok \in Tokens, c \in RestContents :
            (RestCreatePost(tok, c) /\ Trim(c) = << >>)
              => (restPosts' = restPosts /\ restResp'.status \in {400, 401, 403})]_vars

\* the ids of the rows of a list
ListIds(l) == {l[i].id : i \in 1..Len(l)}

C18_ErrorsSurfaceWithoutRetry ==
    [][/\ FetchPostsSelect(FALSE) => toast'.variant = "destructive"
       /\ (FetchPostsSelect(TRUE) \/ FetchPostsSelect(FALSE)) => fetch'.pc # "posts"
       /\ \A p \in PostIds :
            /\ FetchLikeCount(p, FALSE) => toast'.variant = "destructive"
            /\ FetchCommentCount(p, FALSE) => toast'.variant = "destructive"
            /\ (FetchLikeCount(p, TRUE) \/ FetchLikeCount(p, FALSE))
                 => fetch'.step[p] = "comment"
            /\ (FetchCommentCount(p, TRUE) \/ FetchCommentCount(p, FALSE))
                 => fetch'.step[p] = "done"]_vars

\* C21: the comments query of post p returns the comments rows with that
\* post_id, each once, the older before the newer, each with the profile of
\* its author; fetchComments displays what the query returned.
C21_ListedCommentsAreThoseOfThePost ==
    [][\A p \in PostIds :
        /\ FetchCommentsSelect(p, TRUE)
             => LET d == pi'[p].fetchComments.data
                    rows == {r \in BagToSet(comments) : r.post_id = p}
                    Shows(i, r) == /\ d[i].content = r.content
                                   /\ d[i].created_at = r.created_at
                                   /\ d[i].profiles[1].id = r.user_id
                IN /\ \A i \in 1..Len(d) :
                         /\ Len(d[i].profiles) = 1
                         /\ BagIn(d[i].profiles[1], profiles)
                         /\ \E r \in rows : Shows(i, r)
                   /\ \A r \in rows :
                         Cardinality({i \in 1..Len(d) : Shows(i, r)}) = CopiesIn(r, comments)
                   /\ \A i, j \in 1..Len(d) :
                         i < j => d[i].created_at <= d[j].created_at
        /\ (FetchCommentsDone(p) /\ pi[p].fetchComments.st = "ok")
             => pi'[p].comments = pi[p].fetchComments.data]_vars

\* the component displays the two comments of its post, written by two
\* users, the older first, while the other post has a comment too
C21_Witness ==
    \E p \in PostIds :
        /\ pi[p].mounted /\ Len(pi[p].comments) = 2
        /\ pi[p].comments[1].created_at < pi[p].comments[2].created_at
        /\ pi[p].comments[1].profiles[1].id # pi[p].comments[2].profiles[1].id
        /\ \E r \in BagToSet(comments) : r.post_id # p
        /\ \A r \in BagToSet(comments) :
              r.post_id = p => \E i \in 1..2 : pi[p].comments[i].created_at = r.created_at

\* the profile row with id u in bag b, as a set (empty without a row)
ProfileRowsOf(b, u) == {r \in BagToSet(b) : r.id = u}

\* C22: a profile row changes only by an update sent by the principal whose
\* id is the id of the row, and it keeps its id; a profile row disappears
\* only when its auth user is deleted; a delete of a profile sent by any
\* client, the owner included, removes no row.
C22_ProfileUpdateAndDeleteRules ==
    [][/\ \A u \in Users :
            /\ (ProfileRowsOf(profiles, u) # {} /\ ProfileRowsOf(profiles', u) # {}
                   /\ ProfileRowsOf(profiles', u) # ProfileRowsOf(profiles, u))
                 => (resp'.op = "updateProfile" /\ resp'.pr = u /\ resp'.u = u)
            /\ (ProfileRowsOf(profiles, u) # {} /\ ProfileRowsOf(profiles', u) = {})
                 => (resp'.op = "deleteUser" /\ resp'.u = u /\ u \notin authUsers')
       /\ (resp'.op = "updateProfile" /\ resp'.pr # resp'.u)
            => (profiles' = profiles /\ resp'.n = 0)
       /\ resp'.op = "deleteProfile"
            => (UNCHANGED dbVars /\ resp'.n = 0)]_vars

\* the owner's delete of its own profile was answered: the row, which the
\* owner had renamed, is still there with the post of the owner
C22_Witness ==
    /\ resp.op = "deleteProfile" /\ resp.pr = resp.u
    /\ \E r \in ProfileRowsOf(profiles, resp.u) : r.name = "Zoe"
    /\ PostsOfProfile(resp.u) # {}

\* the session user has not liked post p, and the component of p shows that:
\* it displays the count n while the post has c like rows
ToggleStart(p, n, c) ==
    /\ pi[p].mounted /\ pi[p].chk = "idle" /\ pi[p].like = NoRequest
    /\ ~pi[p].isLiked /\ pi[p].likeCount = n
    /\ LikeRows(likes, user, p) = {} /\ CountLikes(p) = c

\* what the component of p displays
ShowsLike(p, liked, n) == pi[p].isLiked = liked /\ pi[p].likeCount = n

\* the post is as at the start, or liked by the session user with one like
\* more; the display follows when the handler goes on after the answer
ToggleRoundTrip(p, n, c) ==
    \/ /\ LikeRows(likes, user, p) = {} /\ CountLikes(p) = c
       /\ \/ ShowsLike(p, FALSE, n) /\ pi[p].like.st # "ok"
          \/ ShowsLike(p, TRUE, n + 1) /\ pi[p].like = [kind |-> "unlike", st |-> "ok"]
    \/ /\ BagCardinality(RowsIn(likes, LikeRows(likes, user, p))) = 1
       /\ CountLikes(p) = c + 1
       /\ \/ ShowsLike(p, TRUE, n + 1) /\ pi[p].like.st # "ok"
          \/ ShowsLike(p, FALSE, n) /\ pi[p].like = [kind |-> "like", st |-> "ok"]

\* C23: from a state where the session user has not liked the post, with
\* nobody else acting, a like that succeeds makes the post liked with one
\* like more, in the table and then on the display, and an unlike that
\* succeeds after it restores the flag and the count of the start, in the
\* table and then on the display; toggles that fail change nothing.
C23_LikeThenUnlikeRestores ==
    \A p \in PostIds, n \in 0..MaxCount, c \in 0..MaxUsers :
        [](ToggleStart(p, n, c) => [](pi[p].mounted => ToggleRoundTrip(p, n, c)))

\* the session user liked and then unliked a post that another user likes:
\* the like of the other user is the one row left
C23_Witness ==
    /\ toast = Success("Post unliked!")
    /\ \E p \in PostIds :
          /\ pi[p].mounted /\ pi[p].like = NoRequest
          /\ ~pi[p].isLiked /\ pi[p].likeCount = 1
          /\ LikeRows(likes, user, p) = {} /\ CountLikes(p) = 1

\* C24: under every interleaving of register requests no two users of the
\* server have one email, and a register request for an email that a user
\* has is answered 400 and leaves the users alone.
C24_RegisteredEmailsAreUnique ==
    /\ [](\A i, j \in 1..Len(restUsers) :
             i # j => restUsers[i].email # restUsers[j].email)
    /\ [][\A email \in RestEmails :
            (RestRegisterStart(email)
               /\ \E i \in 1..Len(restUsers) : restUsers[i].email = email)
              => (restResp'.status = 400 /\ restUsers' = restUsers)]_vars

\* C25: when checkIfLiked and every handleLike call of the component have
\* completed, with no other client of the user, isLiked tells whether the
\* like row of (currentUser, post) exists: an answer of checkIfLiked that was
\* read before a like was inserted does not overwrite the flag of that like.
C25_FlagAgreesWithRowWhenSettled ==
    \A p \in PostIds :
        (pi[p].mounted /\ pi[p].chk = "idle" /\ pi[p].like = NoRequest)
          => (pi[p].isLiked <=> LikeRows(likes, user, p) # {})

\* the rows of list f other than the post with id p, in their order
RECURSIVE Without(_, _)
Without(f, p) ==
    IF f = << >> THEN << >>
    ELSE IF Head(f).id = p THEN Without(Tail(f), p)
    ELSE <<Head(f)>> \o Without(Tail(f), p)

\* C26: when handleCreatePost succeeds, the displayed list becomes the new
\* post followed by the posts that were displayed just before (the new post
\* itself aside, if a fetch had brought it): the result of a fetchPosts that
\* arrived while the insert was in flight is kept.
C26_CreateKeepsTheDisplayedPosts ==
    [][(HandleCreatePostDone /\ create.st = "ok")
         => (/\ feed' # << >> /\ feed'[1].id = create.data[1].id
             /\ Without(feed', create.data[1].id) = Without(feed, create.data[1].id))]_vars

\* C27: a component has a like or unlike request in flight exactly while its
\* isLoadingLike is true, so never two at a time: a call of handleLike made
\* while the flag is true changes nothing and sends nothing, a request is
\* sent only by a call made while the flag is false and no request is in
\* flight, and every run ends with the flag false, after a success and
\* after an error.
C27_OneLikeRequestInFlight ==
    /\ [](\A p \in PostIds :
             pi[p].mounted => (pi[p].isLoadingLike <=> pi[p].like # NoRequest))
    /\ [][\A p \in PostIds :
            /\ (HandleLikeStart(p) /\ pi[p].isLoadingLike) => UNCHANGED vars
            /\ (pi[p].mounted /\ pi'[p].mounted /\ pi'[p].like # pi[p].like
                   /\ pi'[p].like.st = "sent")
                 => (pi[p].like = NoRequest /\ ~pi[p].isLoadingLike)
            /\ HandleLikeDone(p)
                 => (~pi'[p].isLoadingLike /\ pi'[p].like = NoRequest)]_vars

\* a run of handleLike ended with an error and cleared the flag, and the
\* request of the next run is in flight
C27_Witness ==
    /\ toast = Destructive("transient")
    /\ \E p \in PostIds :
          /\ pi[p].mounted /\ pi[p].isLoadingLike
          /\ pi[p].like = [kind |-> "like", st |-> "sent"]

\* C28: in the REST server every post of the posts list has the id of a user
\* of the users list as authorId, and a create-post request that is answered
\* 500 has added no post.
C28_PostsHaveAuthors ==
    /\ [](\A i \in 1..Len(restPosts) : HasUser(restPosts[i].authorId))
    /\ [][((\E tok \in RestTokens, c \in RestContents : RestCreatePost(tok, c))
            /\ restResp'.status = 500) => restPosts' = restPosts]_vars

\* C29: loading is true until getInitialSession has run, and once useAuth is
\* mounted loading becomes false on every path of getInitialSession (unless
\* the page is left before); user is only ever set to the principal of the
\* session, by a resolver run that read the principal's profile row or
\* created it.
C29_LoadingEndsAndUserHasProfile ==
    /\ [](loading <=> gis # "done")
    /\ [](gis # "unmounted" => <>(~loading \/ gis = "unmounted"))
    /\ [][(user' # user /\ user' # NoUser)
            => \E i \in 1..2 :
                 /\ \/ resolver[i].pc = "found"
                    \/ resolver[i].pc = "inserted" /\ resolver[i].st = "ok"
                 /\ resolver[i].authUser = session
                 /\ user' = session.id]_vars

\* getInitialSession created the missing profile (the row has the name only
\* the resolver gives) and ended: loading is false and user is the principal
\* of the session
C29_Witness ==
    /\ ~loading /\ gis = "done"
    /\ user # NoUser /\ user = session.id
    /\ resolver = NoRuns
    /\ \E r \in BagToSet(profiles) : r.id = user /\ r.name = ResolverPlaceholder

\* the password hashes the server stores
PasswordHashes(users) == {users[i].password : i \in 1..Len(users)}

\* a user object of a response body carries no password hash: it has no
\* password field and none of its texts is a stored hash (the id is a number)
NoHashIn(u) ==
    /\ "password" \notin DOMAIN u
    /\ \A f \in DOMAIN u \ {"id"} : u[f] \notin PasswordHashes(restUsers)

\* a post object of a response body: id, content, authorId and createdAt
\* with the author object
NoHashInPost(post) ==
    /\ DOMAIN post = {"id", "content", "authorId", "createdAt", "author"}
    /\ NoHashIn(post.author)

\* the objects of the last response hold no password hash; an answer with
\* another status is a fixed message
NoHashInResponse ==
    /\ (restResp.route \in {"register", "login"} /\ restResp.status \in {200, 201})
         => NoHashIn(restResp.body.user)
    /\ (restResp.route = "get user" /\ restResp.status = 200)
         => NoHashIn(restResp.body)
    /\ (restResp.route \in {"list posts", "user posts"} /\ restResp.status = 200)
         => \A i \in 1..Len(restResp.body) : NoHashInPost(restResp.body[i])
    /\ (restResp.route = "create post" /\ restResp.status = 201)
         => NoHashInPost(restResp.body)
    /\ restResp.status \notin {200, 201}
         => restResp.body \in {"none", "User already exists", "Invalid credentials",
                               "Access token required", "Invalid token",
                               "User not found", "Server error"}

\* a request of one of the routes behind authenticateToken
AuthenticatedRoute(tok) ==
    \/ RestListPosts(tok)
    \/ \E c \in RestContents : RestCreatePost(tok, c)
    \/ \E id \in RestUserIds : RestGetUser(tok, id)
    \/ \E id \in RestUserIds : RestUserPosts(tok, id)

\* C30: no field of a user or post object the server sends (register, login,
\* get user, list posts, create post, a user's posts) is a stored password
\* hash, and a request of a route other than register and login without a
\* token is answered 401, with a token that does not verify 403, the answer
\* being the same in every state and users and posts staying as they are.
C30_NoHashInResponsesAndTokenRequired ==
    /\ []NoHashInResponse
    /\ [][/\ AuthenticatedRoute(NoToken)
               => /\ restResp'.status = 401
                  /\ restResp'.body = "Access token required"
                  /\ restUsers' = restUsers /\ restPosts' = restPosts
          /\ AuthenticatedRoute(BadToken)
               => /\ restResp'.status = 403
                  /\ restResp'.body = "Invalid token"
                  /\ restUsers' = restUsers /\ restPosts' = restPosts]_vars

\* GET /api/users/:id has answered with a registered user, the stored
\* object having a password hash and the object sent having none
C30_Witness ==
    /\ restResp.route = "get user" /\ restResp.status = 200
    /\ Len(restUsers) >= 2
    /\ restUsers[2].password \in PasswordHashes(restUsers)
    /\ restResp.body = WithoutPassword(restUsers[2])

====
